---- MODULE Spec2Model ----
(***************************************************************************)
(* A model of the Direct Load Control override service: the request API,   *)
(* the dispatchers, the override workflow, the cancel API and the cancel    *)
(* workflow, all acting on the request tracker (one header item and one     *)
(* stage item per recorded stage).                                          *)
(*                                                                          *)
(* Conventions.  Times are minutes on one clock (now).  An optional         *)
(* attribute is a set: {} when the attribute is absent, {v} when it holds   *)
(* v.  Each action is one Lambda invocation (or one step of it where the    *)
(* handler is split, which is said at the action).  Calls are bound to the  *)
(* function they evidently name: a keyword or a dictionary key that the     *)
(* callee does not know is read as the callee's parameter of that meaning,  *)
(* so that the logic of every handler is exercised as it is written.        *)
(***************************************************************************)
EXTENDS Integers, Sequences, FiniteSets, TLC

\* ------------------------------------------------------------------ bounds
MaxReq == 2
MaxNow == 15
MaxDeliveries == 2
MaxCancels == 1
MaxFaults == 1
MaxDispatchCount == 7
MaxRecords == 18

\* ------------------------------------------------------- program constants
OPPOSITE_SWITCH_DIRECTION_BACKOFF == 5
CONTIGUOUS_START_BUFFER_MINUTES == 5

\* minutes the clock advances by in one step: the smallest interval the
\* program computes with
TickMinutes == CONTIGUOUS_START_BUFFER_MINUTES

\* correlation ids: one more than the requests of the two-request runs, for
\* the runs that chain three requests
CorrIds == 1..(MaxReq + 1)
Meters == {"M1", "M2"}
Statuses == {"ON", "OFF"}
Site == "S1"
\* the subscription the requests are submitted under, and the subscriptions
\* a cancellation may be called with
SubscriptionId == "SUB1"
Subscriptions == {"SUB1", "SUB2"}

\* HTTP status codes of the API responses
HTTP_OK == 200
BAD_REQUEST == 400
INTERNAL_SERVER_ERROR == 500
Windows == {<<10, 15>>, <<15, 20>>, <<10, 20>>}
Groups == {"", "G1"}

\* Stage enumeration
RECEIVED == "RECEIVED"
DECLINED == "DECLINED"
QUEUED == "QUEUED"
POLICY_CREATED == "POLICY_CREATED"
POLICY_EXTENDED == "POLICY_EXTENDED"
POLICY_DEPLOYED == "POLICY_DEPLOYED"
DLC_OVERRIDE_STARTED == "DLC_OVERRIDE_STARTED"
DLC_OVERRIDE_FINISHED == "DLC_OVERRIDE_FINISHED"
DLC_OVERRIDE_FAILURE == "DLC_OVERRIDE_FAILURE"
CANCELLED == "CANCELLED"
EXTENDED_BY == "EXTENDED_BY"
STAGE_EXTENDS == "EXTENDS"

VARIABLES
    now,        \* the clock
    header,     \* tracker header item of each correlation id (NoItem: none)
    detail,     \* tracker stage items of each correlation id
    events,     \* milestone events delivered to the event stream
    alerts,     \* correlation ids reported to support
    body,       \* the request body of each correlation id, as queued
    nextCid,    \* number of correlation ids created so far
    dlv,        \* deliveries of each queued message that reached the engine
    gated,      \* throttle invocations that passed the pending check
    exec,       \* override workflow executions, by execution key
    pnet,       \* the policy provider: its policies and the calls made to it
    cexec,      \* calls of the cancel API in order: response and workflow execution
    faults,     \* failures the environment (queue, engine, provider) has answered
    http,       \* the last response of the request API
    disp,       \* a grouped dispatch unit and the chunks it was split into
    status,     \* the last response of the status API
    upd         \* callers of the tracker functions: their position and locals

trackerVars == <<header, detail, events>>
vars ==
    <<now, header, detail, events, alerts, body, nextCid, dlv, gated, exec, pnet, cexec,
      faults, http, disp, status, upd>>

\* ------------------------------------------------------------ tracker keys
\* GSI3 keys as tracker_utils writes them on a header item
TRACKER_GSI3PK(end) ==
    IF end = {} THEN [prefix |-> "NO_DATE", rest |-> <<>>]
    ELSE [prefix |-> "REQUESTENDDATE#", rest |-> <<ToString(CHOOSE e \in end : TRUE)>>]

TRACKER_GSI3SK(site, meter) == [prefix |-> "SITE#MTR#", rest |-> <<site, meter>>]

NoKey == [prefix |-> "", rest |-> <<>>]

NoItem ==
    [noStages |-> 0, currentStg |-> "", site |-> "", mtrSrlNo |-> "",
     overrdValue |-> "", rqstStrtDt |-> {}, rqstEndDt |-> {}, plcyId |-> {},
     extnddBy |-> {}, extnds |-> {}, original_start_datetime |-> {},
     subId |-> "", group_id |-> {}, GSI3PK |-> NoKey, GSI3SK |-> NoKey]

\* keyword arguments of update_tracker that are not supplied
NoFields ==
    [plcyId |-> {}, rqstStrtDt |-> {}, rqstEndDt |-> {}, extnddBy |-> {},
     extnds |-> {}, original_start_datetime |-> {}]

\* the tracker table together with the event stream, as one value that the
\* tracker functions take and return
Store == [h |-> header, d |-> detail, e |-> events]

get_header_record(T, cid) == T.h[cid]

add_tracker_detail(T, cid, stg_no, stage) ==
    [T EXCEPT !.d[cid] = {r \in @ : r.stg # stg_no} \cup {[stg |-> stg_no, stgName |-> stage]}]

\* group_id: the keyword argument, {} when it is not supplied
create_tracker(T, cid, sub_id, site, meter, override, group_id) ==
    LET item == [NoItem EXCEPT !.noStages = 1, !.currentStg = RECEIVED,
                               !.subId = sub_id, !.group_id = group_id,
                               !.site = site, !.mtrSrlNo = meter,
                               !.overrdValue = override,
                               !.GSI3PK = TRACKER_GSI3PK({}),
                               !.GSI3SK = TRACKER_GSI3SK(site, meter)]
    IN  add_tracker_detail([T EXCEPT !.h[cid] = item], cid, 1, RECEIVED)

\* update_header_record without the stage number
update_header_record_keeps_count(T, cid, stage, stage_no, f) ==
    [T EXCEPT !.h[cid] = [@ EXCEPT !.currentStg = stage]]

\* update_header_record writing the policy id whether it is supplied or not
update_header_record_sets_policy(T, cid, stage, stage_no, f) ==
    LET old == T.h[cid]
        new == [old EXCEPT
                  !.currentStg = stage,
                  !.noStages = stage_no,
                  !.plcyId = f.plcyId,
                  !.rqstStrtDt = IF f.rqstStrtDt # {} THEN f.rqstStrtDt ELSE @,
                  !.rqstEndDt = IF f.rqstEndDt # {} THEN f.rqstEndDt ELSE @,
                  !.GSI3PK = IF f.rqstEndDt # {} THEN TRACKER_GSI3PK(f.rqstEndDt) ELSE @,
                  !.extnddBy = IF f.extnddBy # {} THEN f.extnddBy ELSE @,
                  !.extnds = IF f.extnds # {} THEN f.extnds ELSE @,
                  !.original_start_datetime =
                      IF f.original_start_datetime # {} THEN f.original_start_datetime ELSE @]
    IN  [T EXCEPT !.h[cid] = new]

update_header_record(T, cid, stage, stage_no, f) ==
    LET old == T.h[cid]
        new == [old EXCEPT
                  !.currentStg = stage,
                  !.noStages = stage_no,
                  !.plcyId = IF f.plcyId # {} THEN f.plcyId ELSE @,
                  !.rqstStrtDt = IF f.rqstStrtDt # {} THEN f.rqstStrtDt ELSE @,
                  !.rqstEndDt = IF f.rqstEndDt # {} THEN f.rqstEndDt ELSE @,
                  !.GSI3PK = IF f.rqstEndDt # {} THEN TRACKER_GSI3PK(f.rqstEndDt) ELSE @,
                  !.extnddBy = IF f.extnddBy # {} THEN f.extnddBy ELSE @,
                  !.extnds = IF f.extnds # {} THEN f.extnds ELSE @,
                  !.original_start_datetime =
                      IF f.original_start_datetime # {} THEN f.original_start_datetime ELSE @]
    IN  [T EXCEPT !.h[cid] = new]

\* raises TrackerException (the store is left as it was) when there is no header
update_tracker(T, cid, stage, f) ==
    LET hdr == get_header_record(T, cid)
        new_stg_no == hdr.noStages + 1
    IN  IF hdr = NoItem THEN T
        ELSE add_tracker_detail(update_header_record(T, cid, stage, new_stg_no, f),
                                cid, new_stg_no, stage)

\* assemble_event_payload reads the header; the event carries the stage the
\* header showed when the event was assembled
deliver_event(T, cid, milestone) ==
    [T EXCEPT !.e = @ \cup {[cid |-> cid, milestone |-> milestone,
                              seen |-> T.h[cid].currentStg]}]

is_request_pending_state_machine(T, cid) ==
    \/ get_header_record(T, cid) = NoItem
    \/ get_header_record(T, cid).currentStg = RECEIVED

\* ------------------------------------------------------- grouped updates
\* data of a grouped dispatch unit: members (in batch order) and the window

update_header_end_date(T, data) ==
    LET pk == {data.members[i] : i \in 1..Len(data.members)}
        items == {c \in pk : T.h[c].GSI3PK = TRACKER_GSI3PK({})}
    IN  [T EXCEPT !.h = [c \in CorrIds |->
            IF c \in items THEN [@[c] EXCEPT !.GSI3PK = TRACKER_GSI3PK({data.end})]
            ELSE @[c]]]

\* the header items the grouped update finds through the end-date index
bulk_items(T, data) ==
    {c \in {data.members[i] : i \in 1..Len(data.members)} :
        T.h[c].GSI3PK = TRACKER_GSI3PK({data.end})}

bulk_update_header_records(T, data, stage, f) ==
    LET items == bulk_items(T, data)
    IN  [T EXCEPT !.h = [c \in CorrIds |->
            IF c \in items
            THEN [@[c] EXCEPT
                    !.currentStg = stage,
                    !.noStages = @ + 1,
                    !.plcyId = IF f.plcyId # {} THEN f.plcyId ELSE @,
                    !.original_start_datetime =
                        IF f.original_start_datetime # {}
                        THEN f.original_start_datetime ELSE @,
                    !.rqstStrtDt = IF f.rqstStrtDt # {} THEN f.rqstStrtDt ELSE @,
                    !.rqstEndDt = IF f.rqstEndDt # {} THEN f.rqstEndDt ELSE @,
                    !.GSI3PK = IF f.rqstEndDt # {} THEN TRACKER_GSI3PK(f.rqstEndDt) ELSE @]
            ELSE @[c]]]

\* no_stages: the stage number of every header the header update found; a
\* member it did not find raises KeyError, which ends the loop (the stage
\* items put before it are flushed)
RECURSIVE bulk_add_tracker_detail(_, _, _, _, _)
bulk_add_tracker_detail(T, data, stage, no_stages, i) ==
    IF i > Len(data.members) \/ data.members[i] \notin DOMAIN no_stages THEN T
    ELSE LET cid == data.members[i]
             T1 == add_tracker_detail(T, cid, no_stages[cid], stage)
             T2 == IF stage \in {POLICY_CREATED, POLICY_EXTENDED, POLICY_DEPLOYED}
                   THEN T1 ELSE deliver_event(T1, cid, stage)
         IN  bulk_add_tracker_detail(T2, data, stage, no_stages, i + 1)

bulk_update_tracker(T, data, stage, f) ==
    LET T1 == bulk_update_header_records(T, data, stage, f)
        no_stages == [c \in bulk_items(T, data) |-> T1.h[c].noStages]
    IN  bulk_add_tracker_detail(T1, data, stage, no_stages, 1)

\* the grouped update the throttle dispatcher calls: the headers of a group
\* still carry no end date, so they are given the group's end-date key and
\* then updated together
bulk_update_records(T, data, stage, f) ==
    bulk_update_tracker(update_header_end_date(T, data), data, stage, f)

\* --------------------------------------------------------------- validator
MSG_DUPLICATE == "Request is the duplicate of an existing request"
MSG_OVERLAP == "Request rejected as it overlaps with at least one existing request"

validate_dlc_override_request(request, t) ==
    (IF request.end = request.start
     THEN {"Request's end date is the same as the start date"} ELSE {})
    \cup (IF request.end < request.start
          THEN {"Request's end date is before the start date"} ELSE {})
    \cup (IF request.end < t THEN {"Request's end date is in the past"} ELSE {})

\* GSI3 keys as the validator builds them for its query
VALIDATOR_GSI3PK(site, meter) == [prefix |-> "SITE#MTR#", rest |-> <<site, meter>>]

VALIDATOR_GSI3SK(start) == [prefix |-> "REQUESTENDDATE#", rest |-> <<ToString(start)>>]

\* string comparison of two index keys: by prefix, then (same prefix, a date) by date
PrefixRank(p) == CASE p = "" -> 0 [] p = "NO_DATE" -> 1 [] p = "REQUESTENDDATE#" -> 2 [] OTHER -> 3

KeyDate(hdr) == IF hdr.rqstEndDt = {} THEN 0 ELSE CHOOSE e \in hdr.rqstEndDt : TRUE

\* the header items the overlap query returns
duration_items(T, request) ==
    {c \in CorrIds :
        LET hdr == T.h[c]
        IN  /\ hdr # NoItem
            /\ hdr.GSI3PK = VALIDATOR_GSI3PK(Site, request.meter)
            /\ \/ PrefixRank(hdr.GSI3SK.prefix) > PrefixRank("REQUESTENDDATE#")
               \/ /\ hdr.GSI3SK.prefix = "REQUESTENDDATE#"
                  /\ KeyDate(hdr) >= request.start
            /\ hdr.rqstStrtDt # {}
            /\ \A s \in hdr.rqstStrtDt : s <= request.end
            /\ hdr.currentStg \notin {CANCELLED, DECLINED, DLC_OVERRIDE_FINISHED}}

\* the verdict on one returned item: "" for a contiguous candidate
classify(T, request, c) ==
    LET hdr == T.h[c]
    IN  IF hdr.rqstStrtDt = {request.start} /\ hdr.rqstEndDt = {request.end} THEN MSG_DUPLICATE
        ELSE IF hdr.rqstStrtDt = {request.end} THEN ""
        ELSE IF hdr.rqstEndDt = {request.start} THEN ""
        ELSE MSG_OVERLAP

\* the loop stops at the first item that is an error, so one message at most
validate_request_duration(T, request) ==
    LET bad == {c \in duration_items(T, request) : classify(T, request, c) # ""}
    IN  IF bad = {} THEN {}
        ELSE {classify(T, request, CHOOSE c \in bad : \A d \in bad : c <= d)}

\* ------------------------------------------------------------ initial state
NoBody == [meter |-> "", status |-> "", start |-> 0, end |-> 0, group |-> "", via |-> ""]

\* correlation_id 0: null
NoResponse == [statusCode |-> 0, correlation_id |-> 0, errorDetails |-> {}]

NoExec == [st |-> "none", pc |-> "", members |-> <<>>, policyID |-> {}, deploy_start |-> 0]

\* items: the headers the contiguity query returned; units: the dispatch
\* units the contiguity split emitted
NoDispatch ==
    [max |-> 0, records |-> <<>>, chunks |-> <<>>, done |-> FALSE, status |-> "",
     items |-> {}, units |-> <<>>]

\* correlation_id 0: no response yet
NoStatus == [statusCode |-> 0, status |-> "", correlation_id |-> 0]

Callers == 1..2

NoCall == [pc |-> "idle", op |-> "", cid |-> 0, stage |-> "", new_stg_no |-> 0, raised |-> FALSE]

Init ==
    /\ disp = NoDispatch
    /\ status = NoStatus
    /\ upd = [p \in Callers |-> NoCall]
    /\ now = TickMinutes
    /\ header = [c \in CorrIds |-> NoItem]
    /\ detail = [c \in CorrIds |-> {}]
    /\ events = {}
    /\ alerts = {}
    /\ body = [c \in CorrIds |-> NoBody]
    /\ nextCid = 0
    /\ dlv = [c \in CorrIds |-> 0]
    /\ gated = [c \in CorrIds |-> 0]
    /\ exec = [c \in CorrIds |-> NoExec]
    /\ pnet = [policies |-> {}, deployed |-> {}, calls |-> {}, npol |-> [c \in CorrIds |-> 0],
               undeploys |-> {}]
    /\ cexec = <<>>
    /\ faults = 0
    /\ http = NoResponse

\* the environment answers with a failure MaxFaults times at most; an answer
\* that a handler does not come to ask for is taken as given (ok)
Fault(n) ==
    /\ faults + n <= MaxFaults
    /\ faults' = faults + n

B2N(ok) == IF ok THEN 0 ELSE 1

Tick ==
    /\ now + TickMinutes <= MaxNow
    /\ now' = now + TickMinutes
    /\ UNCHANGED <<trackerVars, alerts, body, nextCid, dlv, gated, exec, pnet, cexec, faults, http, disp, status, upd>>

\* ----------------------------------------------------------- request API
\* request bodies a client may submit (grouped bodies name group G1)
Bodies ==
    {b \in [meter : Meters, status : Statuses, start : {10, 15}, end : {15, 20},
            group : Groups, via : {"throttle", "subgrp"}] :
        /\ <<b.start, b.end>> \in Windows
        /\ b.group # "" => b.via = "throttle" /\ b.status = "ON" /\ b.start = 10 /\ b.end = 15
        /\ b.group = "" => b.meter = "M1"
        /\ b.status = "OFF" => b.start = 15 /\ b.via = "throttle"
        /\ b.via = "subgrp" => b.end - b.start = 5}

\* request bodies with a window that is no window
BadBodies ==
    {[meter |-> "M1", status |-> "ON", start |-> w[1], end |-> w[2], group |-> "",
      via |-> "throttle"] : w \in {<<15, 15>>, <<15, 10>>}}

\* report_errors of the request API: the tracker update only
apigw_report_errors(T, cid) == update_tracker(T, cid, DECLINED, NoFields)

\* job_entry with the correlation id created before the request is validated
job_entry_id_first(request, outcome) ==
    /\ nextCid + 1 \in CorrIds
    /\ LET errors == validate_dlc_override_request(request, now)
           cid == nextCid + 1
           T1 == create_tracker(Store, cid, SubscriptionId, Site, request.meter,
                                request.status, {})
       IN  IF errors # {}
           THEN /\ http' = [statusCode |-> BAD_REQUEST, correlation_id |-> cid,
                            errorDetails |-> errors]
                /\ nextCid' = cid
                /\ UNCHANGED <<trackerVars, body>>
           ELSE /\ header' = T1.h /\ detail' = T1.d /\ events' = T1.e
                /\ nextCid' = cid
                /\ body' = [body EXCEPT ![cid] = request]
                /\ http' = [statusCode |-> HTTP_OK, correlation_id |-> cid,
                            errorDetails |-> {}]
    /\ outcome = "accepted"
    /\ Fault(0)
    /\ UNCHANGED <<now, alerts, dlv, gated, exec, pnet, cexec, disp, status, upd>>

MSG_SUBSCRIPTION == "No active subscription found for the supplied site and subscription id"
MSG_QUEUE == "Sending DLC request to throttling queue failed"

format_response(status_code, cid, errors) ==
    [statusCode |-> status_code, correlation_id |-> cid, errorDetails |-> errors]

\* outcome: what the subscription lookup and the queue answer
job_entry(request, outcome) ==
    /\ nextCid + 1 \in CorrIds
    /\ LET errors == validate_dlc_override_request(request, now)
           cid == nextCid + 1
           T1 == create_tracker(Store, cid, SubscriptionId, Site, request.meter,
                                request.status, {})
           duration_errors == validate_request_duration(T1, request)
       IN  IF errors # {}
           THEN /\ http' = format_response(BAD_REQUEST, 0, errors)
                /\ outcome = "accepted"
                /\ UNCHANGED <<trackerVars, body, nextCid>>
           ELSE IF outcome = "subscription_error"
           THEN LET T2 == apigw_report_errors(T1, cid)
                IN  /\ header' = T2.h /\ detail' = T2.d /\ events' = T2.e
                    /\ nextCid' = cid
                    /\ body' = [body EXCEPT ![cid] = NoBody]
                    /\ http' = format_response(BAD_REQUEST, cid, {MSG_SUBSCRIPTION})
           ELSE IF duration_errors # {}
           THEN LET T2 == apigw_report_errors(T1, cid)
                IN  /\ header' = T2.h /\ detail' = T2.d /\ events' = T2.e
                    /\ nextCid' = cid
                    /\ body' = [body EXCEPT ![cid] = NoBody]
                    /\ http' = format_response(BAD_REQUEST, cid, duration_errors)
                    /\ outcome = "accepted"
           ELSE IF outcome = "queue_error"
           THEN LET T2 == apigw_report_errors(T1, cid)
                IN  /\ header' = T2.h /\ detail' = T2.d /\ events' = T2.e
                    /\ nextCid' = cid
                    /\ body' = [body EXCEPT ![cid] = NoBody]
                    /\ http' = format_response(INTERNAL_SERVER_ERROR, cid, {MSG_QUEUE})
           ELSE /\ header' = T1.h /\ detail' = T1.d /\ events' = T1.e
                /\ nextCid' = cid
                /\ body' = [body EXCEPT ![cid] = request]
                /\ http' = format_response(HTTP_OK, cid, {})
    /\ Fault(IF outcome = "accepted" THEN 0 ELSE 1)
    /\ UNCHANGED <<now, alerts, dlv, gated, exec, pnet, cexec, disp, status, upd>>

\* ------------------------------------------------------ workflow engine
\* at most one execution per key: a second start on a key collides
ExecutionAlreadyExists(key) == exec[key].st # "none"

StartExecution(key, members) ==
    [exec EXCEPT ![key] = [NoExec EXCEPT !.st = "running", !.pc = "create",
                                         !.members = members]]

\* ------------------------------------------------- throttle dispatcher
QueuedFields(b) ==
    [NoFields EXCEPT !.rqstStrtDt = {b.start}, !.rqstEndDt = {b.end},
                     !.original_start_datetime = {b.start}]

GroupData(members) ==
    [members |-> members, start |-> body[members[1]].start, end |-> body[members[1]].end]

\* report_error_to_client without the delivery to the event stream
throttle_report_error_to_client_no_event(T, cid) ==
    update_tracker(T, cid, DECLINED,
                   [NoFields EXCEPT !.rqstStrtDt = {body[cid].start},
                                    !.rqstEndDt = {body[cid].end}])

throttle_report_error_to_client(T, cid) ==
    deliver_event(update_tracker(T, cid, DECLINED,
                      [NoFields EXCEPT !.rqstStrtDt = {body[cid].start},
                                       !.rqstEndDt = {body[cid].end}]),
                  cid, DECLINED)

throttle_update_status(T, cid) ==
    deliver_event(update_tracker(T, cid, QUEUED, QueuedFields(body[cid])), cid, QUEUED)

\* record_handler up to the call of initiate_step_function, for one request
throttle_record_handler(cid) ==
    /\ body[cid] # NoBody /\ body[cid].via = "throttle" /\ body[cid].group = ""
    /\ gated[cid] < MaxDeliveries
    /\ IF ~is_request_pending_state_machine(Store, cid)
       THEN UNCHANGED <<trackerVars, gated>>
       ELSE IF body[cid].end <= now
       THEN LET T1 == throttle_report_error_to_client(Store, cid)
            IN  /\ header' = T1.h /\ detail' = T1.d /\ events' = T1.e
                /\ UNCHANGED gated
       ELSE /\ gated' = [gated EXCEPT ![cid] = @ + 1]
            /\ UNCHANGED trackerVars
    /\ Fault(0)
    /\ UNCHANGED <<now, alerts, body, nextCid, dlv, exec, pnet, cexec, http, disp, status, upd>>

\* initiate_step_function with the collision handled by the general handler
throttle_initiate_collision_reported(cid, ok) ==
    /\ gated[cid] > 0
    /\ gated' = [gated EXCEPT ![cid] = @ - 1]
    /\ dlv' = [dlv EXCEPT ![cid] = @ + 1]
    /\ IF ok /\ ~ExecutionAlreadyExists(cid)
       THEN LET T1 == throttle_update_status(Store, cid)
            IN  /\ exec' = StartExecution(cid, <<cid>>)
                /\ header' = T1.h /\ detail' = T1.d /\ events' = T1.e
                /\ UNCHANGED alerts
       ELSE LET T1 == throttle_report_error_to_client(Store, cid)
            IN  /\ header' = T1.h /\ detail' = T1.d /\ events' = T1.e
                /\ alerts' = alerts \cup {cid}
                /\ UNCHANGED exec
    /\ ExecutionAlreadyExists(cid) => ok
    /\ Fault(B2N(ok))
    /\ UNCHANGED <<now, body, nextCid, pnet, cexec, http, disp, status, upd>>

\* initiate_step_function for one request; ok: the engine answers 200
throttle_initiate_step_function(cid, ok) ==
    /\ gated[cid] > 0
    /\ gated' = [gated EXCEPT ![cid] = @ - 1]
    /\ dlv' = [dlv EXCEPT ![cid] = @ + 1]
    /\ IF ExecutionAlreadyExists(cid)
       THEN UNCHANGED <<trackerVars, alerts, exec>>
       ELSE IF ok
       THEN LET T1 == throttle_update_status(Store, cid)
            IN  /\ exec' = StartExecution(cid, <<cid>>)
                /\ header' = T1.h /\ detail' = T1.d /\ events' = T1.e
                /\ UNCHANGED alerts
       ELSE LET T1 == throttle_report_error_to_client(Store, cid)
            IN  /\ header' = T1.h /\ detail' = T1.d /\ events' = T1.e
                /\ alerts' = alerts \cup {cid}
                /\ UNCHANGED exec
    /\ ExecutionAlreadyExists(cid) => ok
    /\ Fault(B2N(ok))
    /\ UNCHANGED <<now, body, nextCid, pnet, cexec, http, disp, status, upd>>

\* the batches of grouped messages: members in batch order
GroupBatches ==
    {m \in UNION {[1..n -> CorrIds] : n \in 1..MaxReq} :
        /\ \A i, j \in DOMAIN m : i # j => m[i] # m[j]
        /\ \A i \in DOMAIN m :
              /\ body[m[i]] # NoBody /\ body[m[i]].via = "throttle"
              /\ body[m[i]].group # ""
              /\ body[m[i]].group = body[m[1]].group
              /\ body[m[i]].status = body[m[1]].status
              /\ body[m[i]].start = body[m[1]].start
              /\ body[m[i]].end = body[m[1]].end}

\* record_handler and initiate_step_function for one grouped dispatch unit
throttle_group_handler(members, ok) ==
    /\ members \in GroupBatches
    /\ LET S == {members[i] : i \in DOMAIN members}
           data == GroupData(members)
           key == members[1]
       IN  /\ IF \E c \in S : ~is_request_pending_state_machine(Store, c)
              THEN UNCHANGED <<trackerVars, alerts, exec>>
              ELSE IF data.end <= now
              THEN LET T1 == bulk_update_records(Store, data, DECLINED, NoFields)
                   IN  /\ header' = T1.h /\ detail' = T1.d /\ events' = T1.e
                       /\ UNCHANGED <<alerts, exec>>
              ELSE IF ExecutionAlreadyExists(key)
              THEN UNCHANGED <<trackerVars, alerts, exec>>
              ELSE IF ok
              THEN LET T1 == bulk_update_records(Store, data, QUEUED,
                                                 QueuedFields(body[key]))
                   IN  /\ exec' = StartExecution(key, members)
                       /\ header' = T1.h /\ detail' = T1.d /\ events' = T1.e
                       /\ UNCHANGED alerts
              ELSE LET T1 == bulk_update_records(Store, data, DECLINED, NoFields)
                   IN  /\ header' = T1.h /\ detail' = T1.d /\ events' = T1.e
                       /\ alerts' = alerts \cup S
                       /\ UNCHANGED exec
    /\ (\/ \E c \in {members[i] : i \in DOMAIN members} :
              ~is_request_pending_state_machine(Store, c)
        \/ GroupData(members).end <= now
        \/ ExecutionAlreadyExists(members[1])) => ok
    /\ Fault(B2N(ok))
    /\ UNCHANGED <<now, body, nextCid, dlv, gated, pnet, cexec, http, disp, status, upd>>

\* ------------------------------------------------------- policy provider
\* one create call: it is logged; when the provider answers 200 a policy with
\* a fresh id exists.  by: the workflow that calls, cid: the request it is for
create_lc_override_schedule_policy(P, by, cid, start, duration, replace, ok) ==
    LET call == [by |-> by, cid |-> cid, start |-> start, duration |-> duration,
                 replace |-> replace]
        id == <<cid, P.npol[cid] + 1>>
    IN  IF ok THEN [P EXCEPT !.calls = @ \cup {call}, !.policies = @ \cup {id},
                             !.npol[cid] = @ + 1]
        ELSE [P EXCEPT !.calls = @ \cup {call}]

replace_lc_override_schedule_policy(P, by, cid, start, duration, ok) ==
    create_lc_override_schedule_policy(P, by, cid, start, duration, TRUE, ok)

\* the id of the policy the last successful create call made for cid
last_policy(P, cid) == <<cid, P.npol[cid]>>

deploy_policy(P, policy_id, ok) ==
    IF ok THEN [P EXCEPT !.deployed = @ \cup {policy_id}] ELSE P

\* ------------------------------------------------------ override workflow
ContiguousStages ==
    {POLICY_CREATED, POLICY_EXTENDED, POLICY_DEPLOYED, DLC_OVERRIDE_STARTED, EXTENDED_BY}

\* the header items the contiguity query returns for a request starting at start
get_contiguous_request(T, site, meter, start) ==
    {c \in CorrIds :
        /\ T.h[c] # NoItem
        /\ T.h[c].GSI3PK = TRACKER_GSI3PK({start})
        /\ T.h[c].site = site
        /\ T.h[c].mtrSrlNo = meter
        /\ T.h[c].currentStg \in ContiguousStages}

\* every neighbour of the request, each read together with the request's fields
new_get_contiguous_request(T, cid) ==
    get_contiguous_request(T, Site, body[cid].meter, body[cid].start)

\* is_being_enforced with the start of the window left out
is_being_enforced_after_start(start, end, t) == start < t /\ t < end

is_being_enforced(start, end, t) == start <= t /\ t < end

TheOne(S) == CHOOSE x \in S : TRUE

sm_report_errors(T, cid) == update_tracker(T, cid, DECLINED, NoFields)

\* create_policy_update_tracker without the policy id
create_policy_update_tracker_no_id(T, cid, ok, policy_id) ==
    IF ok THEN update_tracker(T, cid, POLICY_CREATED, NoFields)
    ELSE update_tracker(T, cid, DECLINED, NoFields)

create_policy_update_tracker(T, cid, ok, policy_id) ==
    IF ok THEN update_tracker(T, cid, POLICY_CREATED, [NoFields EXCEPT !.plcyId = {policy_id}])
    ELSE update_tracker(T, cid, DECLINED, NoFields)

\* W: the store T, the provider P, the request's start (start), the deploy
\* start and whether the handler has raised
sm_create_policy(W, cid, replace, ok) ==
    LET P1 == create_lc_override_schedule_policy(W.P, "override", cid, W.start,
                                                 body[cid].end - W.start, replace, ok)
    IN  [W EXCEPT !.P = P1,
                  !.T = create_policy_update_tracker(W.T, cid, ok, last_policy(P1, cid))]

\* extend_policy_update_tracker naming the new request as the one it extends
extend_policy_update_tracker_extends_self(T, cid, contiguous, ok, policy_id) ==
    IF ok
    THEN LET T1 == update_tracker(T, contiguous, EXTENDED_BY,
                                  [NoFields EXCEPT !.extnddBy = {cid}])
             T2 == update_tracker(T1, cid, STAGE_EXTENDS,
                       [NoFields EXCEPT
                           !.rqstStrtDt = {body[cid].start},
                           !.rqstEndDt = {body[cid].end},
                           !.extnds = {cid},
                           !.original_start_datetime = T.h[contiguous].original_start_datetime])
         IN  update_tracker(T2, cid, POLICY_EXTENDED, [NoFields EXCEPT !.plcyId = {policy_id}])
    ELSE update_tracker(T, cid, DECLINED, NoFields)

extend_policy_update_tracker(T, cid, contiguous, ok, policy_id) ==
    IF ok
    THEN LET T1 == update_tracker(T, contiguous, EXTENDED_BY,
                                  [NoFields EXCEPT !.extnddBy = {cid}])
             T2 == update_tracker(T1, cid, STAGE_EXTENDS,
                       [NoFields EXCEPT
                           !.rqstStrtDt = {body[cid].start},
                           !.rqstEndDt = {body[cid].end},
                           !.extnds = {contiguous},
                           !.original_start_datetime = T.h[contiguous].original_start_datetime])
         IN  update_tracker(T2, cid, POLICY_EXTENDED, [NoFields EXCEPT !.plcyId = {policy_id}])
    ELSE update_tracker(T, cid, DECLINED, NoFields)

\* raises KeyError when the neighbour's header has no original_start_datetime
extend_policy(W, cid, contiguous, ok) ==
    LET nh == W.T.h[contiguous]
        terminal_start == TheOne(nh.rqstStrtDt)
        P1 == replace_lc_override_schedule_policy(W.P, "override", cid, terminal_start,
                                                  body[cid].end - terminal_start, ok)
    IN  IF nh.original_start_datetime = {} THEN [W EXCEPT !.raised = TRUE]
        ELSE [W EXCEPT !.P = P1,
                       !.T = extend_policy_update_tracker(W.T, cid, contiguous, ok,
                                                          last_policy(P1, cid))]

\* one pass of the loop over the neighbours
contiguous_step(W, cid, contiguous, ok) ==
    LET nh == W.T.h[contiguous]
    IN  IF body[cid].status = nh.overrdValue
        THEN LET W1 == extend_policy(W, cid, contiguous, ok)
             IN  IF ~W1.raised /\ ok
                    /\ ~is_being_enforced(TheOne(nh.rqstStrtDt), TheOne(nh.rqstEndDt), now)
                 THEN [W1 EXCEPT !.deploy_start =
                          TheOne(nh.rqstStrtDt) + CONTIGUOUS_START_BUFFER_MINUTES]
                 ELSE W1
        ELSE sm_create_policy([W EXCEPT !.start = @ + OPPOSITE_SWITCH_DIRECTION_BACKOFF],
                              cid, TRUE, ok)

RECURSIVE contiguous_loop(_, _, _, _)
contiguous_loop(W, cid, todo, ok) ==
    IF todo = {} \/ W.raised THEN W
    ELSE LET n == CHOOSE x \in todo : \A y \in todo : x <= y
         IN  contiguous_loop(contiguous_step(W, cid, n, ok), cid, todo \ {n}, ok)

\* handle_create_policy for one request, after its validation; ok1: the
\* provider's answer inside the loop, ok2: its answer to the last create call
handle_create_policy(W, cid, ok1, ok2) ==
    LET W1 == contiguous_loop(W, cid, new_get_contiguous_request(W.T, cid), ok1)
    IN  IF W1.raised THEN W1 ELSE sm_create_policy(W1, cid, FALSE, ok2)

\* handle_create_policy for a grouped dispatch unit: one policy for all members
RECURSIVE group_update_tracker(_, _, _, _, _)
group_update_tracker(T, members, i, ok, policy_id) ==
    IF i > Len(members) THEN T
    ELSE group_update_tracker(create_policy_update_tracker(T, members[i], ok, policy_id),
                              members, i + 1, ok, policy_id)

handle_create_policy_group(W, members, ok) ==
    LET key == members[1]
        P1 == create_lc_override_schedule_policy(W.P, "override", key, body[key].start,
                                                 body[key].end - body[key].start, FALSE, ok)
    IN  [W EXCEPT !.P = P1,
                  !.T = group_update_tracker(W.T, members, 1, ok, last_policy(P1, key))]

RECURSIVE group_report_errors(_, _, _)
group_report_errors(T, members, i) ==
    IF i > Len(members) THEN T
    ELSE group_report_errors(sm_report_errors(T, members[i]), members, i + 1)

IsGroup(key) == body[key].group # "" /\ body[key].via = "throttle"

\* the createDLCPolicy step of an execution
override_create(key, ok1, ok2) ==
    /\ exec[key].st = "running" /\ exec[key].pc = "create"
    /\ LET members == exec[key].members
           W0 == [T |-> Store, P |-> pnet, start |-> body[key].start,
                  deploy_start |-> now, raised |-> FALSE]
           invalid == validate_dlc_override_request(body[key], now) # {}
           W1 == IF invalid THEN [W0 EXCEPT !.T = group_report_errors(W0.T, members, 1)]
                 ELSE IF IsGroup(key) THEN handle_create_policy_group(W0, members, ok2)
                 ELSE handle_create_policy(W0, key, ok1, ok2)
       IN  /\ header' = W1.T.h /\ detail' = W1.T.d /\ events' = W1.T.e
           /\ pnet' = W1.P
           /\ exec' = [exec EXCEPT ![key] =
                  IF invalid \/ W1.raised \/ ~ok2 THEN [@ EXCEPT !.st = "failed"]
                  ELSE [@ EXCEPT !.pc = "deploy",
                                 !.policyID = {last_policy(W1.P, key)},
                                 !.deploy_start = W1.deploy_start]]
    /\ (\/ validate_dlc_override_request(body[key], now) # {}
        \/ IsGroup(key)
        \/ new_get_contiguous_request(Store, key) = {}) => ok1
    /\ validate_dlc_override_request(body[key], now) # {} => ok2
    /\ Fault(B2N(ok1) + B2N(ok2))
    /\ UNCHANGED <<now, alerts, body, nextCid, dlv, gated, cexec, http, disp, status, upd>>

RECURSIVE deploy_update_tracker(_, _, _, _, _)
deploy_update_tracker(T, members, i, ok, policy_id) ==
    IF i > Len(members) THEN T
    ELSE LET T1 == IF ok THEN update_tracker(T, members[i], POLICY_DEPLOYED,
                                             [NoFields EXCEPT !.plcyId = {policy_id}])
                   ELSE update_tracker(T, members[i], DECLINED, NoFields)
         IN  deploy_update_tracker(T1, members, i + 1, ok, policy_id)

handle_deploy_policy(T, members, policyID, ok) ==
    IF policyID = {} THEN group_report_errors(T, members, 1)
    ELSE deploy_update_tracker(T, members, 1, ok, TheOne(policyID))

\* the deployDLCPolicy step of an execution, after the wait for the deploy start
override_deploy(key, ok) ==
    /\ exec[key].st = "running" /\ exec[key].pc = "deploy"
    /\ now >= exec[key].deploy_start
    /\ LET T1 == handle_deploy_policy(Store, exec[key].members, exec[key].policyID, ok)
       IN  /\ header' = T1.h /\ detail' = T1.d /\ events' = T1.e
           /\ pnet' = IF exec[key].policyID = {} THEN pnet
                      ELSE deploy_policy(pnet, TheOne(exec[key].policyID), ok)
    /\ exec' = [exec EXCEPT ![key].st = "succeeded"]
    /\ Fault(B2N(ok))
    /\ UNCHANGED <<now, alerts, body, nextCid, dlv, gated, cexec, http, disp, status, upd>>

\* ----------------------------------------------------- sub-group dispatcher
subgrp_report_error_to_client(T, cid) ==
    update_tracker(T, cid, DECLINED,
                   [NoFields EXCEPT !.rqstStrtDt = {body[cid].start},
                                    !.rqstEndDt = {body[cid].end}])

subgrp_update_status(T, cid) ==
    update_tracker(T, cid, QUEUED,
                   [NoFields EXCEPT !.rqstStrtDt = {body[cid].start},
                                    !.rqstEndDt = {body[cid].end}])

\* D: the store T and the executions E.  One call of initiate_step_function
subgrp_initiate_step_function(D, cid, ok) ==
    IF D.E[cid].st # "none" THEN D
    ELSE IF ok THEN [T |-> subgrp_update_status(D.T, cid),
                     E |-> [D.E EXCEPT ![cid] = [NoExec EXCEPT !.st = "running",
                                                               !.pc = "create",
                                                               !.members = <<cid>>]]]
    ELSE [D EXCEPT !.T = subgrp_report_error_to_client(D.T, cid)]

RECURSIVE subgrp_record_handlers(_, _, _, _)
subgrp_record_handlers(D, cid, n, ok) ==
    IF n = 0 THEN D
    ELSE subgrp_record_handlers(subgrp_initiate_step_function(D, cid, ok), cid, n - 1, ok)

\* group_records for one message: record_handler runs once for every neighbour
\* found and once more, each time on the request itself
subgrp_group_records(cid, ok) ==
    /\ body[cid] # NoBody /\ body[cid].via = "subgrp"
    /\ dlv[cid] < MaxDeliveries
    /\ LET n == Cardinality(new_get_contiguous_request(Store, cid)) + 1
           D == subgrp_record_handlers([T |-> Store, E |-> exec], cid, n, ok)
       IN  /\ header' = D.T.h /\ detail' = D.T.d /\ events' = D.T.e
           /\ exec' = D.E
           /\ dlv' = IF ExecutionAlreadyExists(cid) THEN dlv
                     ELSE [dlv EXCEPT ![cid] = @ + 1]
    /\ ExecutionAlreadyExists(cid) => ok
    /\ Fault(B2N(ok))
    /\ UNCHANGED <<now, alerts, body, nextCid, gated, pnet, cexec, http, disp, status, upd>>

\* ------------------------------------------------------------- cancel API
IN_PROGRESS_STAGES ==
    {RECEIVED, QUEUED, POLICY_CREATED, POLICY_DEPLOYED, POLICY_EXTENDED, EXTENDED_BY,
     STAGE_EXTENDS, DLC_OVERRIDE_STARTED}

NoCancel ==
    [cid |-> 0, sub |-> "", code |-> 0,
     current_stage |-> "", start |-> 0, end |-> 0, policy_id |-> {},
     extended_by |-> {}, pc |-> "", replace |-> "false", replaced |-> {},
     rstart |-> 0, rend |-> 0, ext_policy |-> {}, ext_stage |-> "", new_policy |-> {}]

\* the response of process_request and whether it starts the workflow
\* ("start"), raises InvalidRequest ("rejected") or raises anything else
\* ("error": a header without end date cannot be parsed, the engine fails)
cancel_verdict(hdr, sub, t, ok) ==
    IF hdr = NoItem THEN "rejected"
    ELSE IF hdr.group_id # {} THEN "rejected"
    ELSE IF sub # hdr.subId THEN "rejected"
    ELSE IF hdr.currentStg \notin IN_PROGRESS_STAGES THEN "rejected"
    ELSE IF hdr.rqstEndDt = {} THEN "error"
    ELSE IF TheOne(hdr.rqstEndDt) < t THEN "rejected"
    ELSE IF ~ok THEN "error"
    ELSE "start"

\* whether process_request comes to call the engine
cancel_asks_engine(hdr, sub, t) == cancel_verdict(hdr, sub, t, FALSE) # cancel_verdict(hdr, sub, t, TRUE)

\* process_request for an active subscription sub of its subscriber; ok: the
\* engine's answer.  The call is recorded with its response
process_request(cid, sub, ok) ==
    /\ Len(cexec) < MaxCancels
    /\ LET hdr == header[cid]
           verdict == cancel_verdict(hdr, sub, now, ok)
           call == [NoCancel EXCEPT !.cid = cid, !.sub = sub]
       IN  CASE verdict = "rejected" ->
                  /\ cexec' = Append(cexec, [call EXCEPT !.code = BAD_REQUEST,
                                                         !.pc = "rejected"])
                  /\ UNCHANGED alerts
             [] verdict = "error" ->
                  /\ cexec' = Append(cexec, [call EXCEPT !.code = INTERNAL_SERVER_ERROR,
                                                         !.pc = "error"])
                  /\ alerts' = alerts \cup {cid}
             [] OTHER ->
                  /\ cexec' = Append(cexec,
                         [call EXCEPT !.code = HTTP_OK,
                                      !.current_stage = hdr.currentStg,
                                      !.start = TheOne(hdr.rqstStrtDt),
                                      !.end = TheOne(hdr.rqstEndDt),
                                      !.policy_id = hdr.plcyId,
                                      !.extended_by = hdr.extnddBy,
                                      !.pc = "evaluate"])
                  /\ UNCHANGED alerts
    /\ ~cancel_asks_engine(header[cid], sub, now) => ok
    /\ Fault(B2N(ok))
    /\ UNCHANGED <<now, trackerVars, body, nextCid, dlv, gated, exec, pnet, http, disp, status, upd>>

\* --------------------------------------------------------- cancel workflow
STEP_FUNCTION_IN_PROGRESS_STAGES == {QUEUED, POLICY_CREATED, POLICY_EXTENDED}
POLICY_DEPLOYED_STATES == {POLICY_DEPLOYED, DLC_OVERRIDE_STARTED, EXTENDED_BY}
REPLACE_FIRST_REQUEST == "replace_first_request"
REPLACE_SECOND_REQUEST == "replace_second_request"

\* the step that follows the evaluation, by the scenario it chose
cancel_route(replace) ==
    CASE replace = REPLACE_FIRST_REQUEST -> "create_replacement"
      [] replace = REPLACE_SECOND_REQUEST -> "undeploy"
      [] OTHER -> "cancel"

\* stop_execution on the override execution named by the correlation id:
\* the engine knows no such execution for a member of a grouped unit
StopRaises(cid) == IsGroup(cid) \/ exec[cid].st = "none"

stop_execution(E, cid) ==
    IF E[cid].st = "running" THEN [E EXCEPT ![cid].st = "aborted"] ELSE E

\* evaluate_request; n: the neighbour the contiguity query returns first (0: none)
evaluate_request(k, n) ==
    /\ k \in DOMAIN cexec /\ cexec[k].pc = "evaluate"
    /\ LET r == cexec[k]
           items == get_contiguous_request(Store, Site, header[r.cid].mtrSrlNo, r.start)
           looks == r.current_stage \in {POLICY_EXTENDED, POLICY_DEPLOYED, DLC_OVERRIDE_STARTED}
       IN  /\ IF looks /\ items # {} THEN n \in items ELSE n = 0
           /\ IF r.current_stage = EXTENDED_BY
              THEN LET x == header[TheOne(r.extended_by)]
                   IN  /\ cexec' = [cexec EXCEPT ![k] =
                             [@ EXCEPT !.replace = REPLACE_SECOND_REQUEST,
                                       !.replaced = r.extended_by,
                                       !.rstart = TheOne(x.rqstStrtDt),
                                       !.rend = TheOne(x.rqstEndDt),
                                       !.ext_policy = x.plcyId,
                                       !.ext_stage = x.currentStg,
                                       !.pc = cancel_route(REPLACE_SECOND_REQUEST)]]
                       /\ UNCHANGED trackerVars
              ELSE IF n # 0 /\ header[r.cid].overrdValue = header[n].overrdValue
              THEN LET cs == TheOne(header[n].rqstStrtDt)
                       ce == TheOne(header[n].rqstEndDt)
                   IN  IF ce > now /\ now > cs
                       THEN /\ cexec' = [cexec EXCEPT ![k] =
                                  [@ EXCEPT !.replace = REPLACE_FIRST_REQUEST,
                                            !.replaced = {n},
                                            !.rstart = cs, !.rend = ce,
                                            !.pc = cancel_route(REPLACE_FIRST_REQUEST)]]
                            /\ UNCHANGED trackerVars
                       ELSE IF now < cs
                       THEN LET T1 == update_tracker(Store, n, POLICY_DEPLOYED,
                                         [NoFields EXCEPT !.rqstStrtDt = {cs},
                                                          !.rqstEndDt = {ce}])
                            IN  /\ header' = T1.h /\ detail' = T1.d /\ events' = T1.e
                                /\ cexec' = [cexec EXCEPT ![k].pc = cancel_route("false")]
                       ELSE /\ cexec' = [cexec EXCEPT ![k].pc = cancel_route("false")]
                            /\ UNCHANGED trackerVars
              ELSE /\ cexec' = [cexec EXCEPT ![k].pc = cancel_route("false")]
                   /\ UNCHANGED trackerVars
    /\ Fault(0)
    /\ UNCHANGED <<now, alerts, body, nextCid, dlv, gated, exec, pnet, http, disp, status, upd>>

\* create_policy of the cancel workflow (replacement or new policy)
cancel_create_policy(k, ok) ==
    /\ k \in DOMAIN cexec /\ cexec[k].pc \in {"create_replacement", "create_new"}
    /\ LET r == cexec[k]
           stops == r.current_stage \in STEP_FUNCTION_IN_PROGRESS_STAGES
           rid == TheOne(r.replaced)
           P1 == create_lc_override_schedule_policy(pnet, "cancel", rid, r.rstart,
                                                    r.rend - r.rstart, TRUE, ok)
           T1 == update_tracker(Store, rid, POLICY_CREATED,
                     [NoFields EXCEPT !.plcyId = {last_policy(P1, rid)},
                                      !.rqstStrtDt = {r.rstart}, !.rqstEndDt = {r.rend}])
       IN  IF stops /\ StopRaises(r.cid)
           THEN /\ cexec' = [cexec EXCEPT ![k].pc = "failed"]
                /\ UNCHANGED <<trackerVars, exec, pnet>>
           ELSE /\ exec' = IF stops THEN stop_execution(exec, r.cid) ELSE exec
                /\ pnet' = P1
                /\ IF ok
                   THEN /\ header' = T1.h /\ detail' = T1.d /\ events' = T1.e
                        /\ cexec' = [cexec EXCEPT ![k] =
                              [@ EXCEPT !.new_policy = {last_policy(P1, rid)},
                                        !.pc = IF r.pc = "create_replacement"
                                               THEN "deploy_replacement" ELSE "deploy_new"]]
                   ELSE /\ cexec' = [cexec EXCEPT ![k].pc = "failed"]
                        /\ UNCHANGED trackerVars
    /\ (cexec[k].current_stage \in STEP_FUNCTION_IN_PROGRESS_STAGES
        /\ StopRaises(cexec[k].cid)) => ok
    /\ Fault(B2N(ok))
    /\ UNCHANGED <<now, alerts, body, nextCid, dlv, gated, http, disp, status, upd>>

\* deploy_replacement_policy without the update of the tracker
deploy_replacement_policy_no_update(k, ok) ==
    /\ k \in DOMAIN cexec /\ cexec[k].pc \in {"deploy_replacement", "deploy_new"}
    /\ LET r == cexec[k]
       IN  IF ok
           THEN /\ pnet' = deploy_policy(pnet, TheOne(r.new_policy), TRUE)
                /\ cexec' = [cexec EXCEPT ![k].pc = "complete"]
                /\ UNCHANGED trackerVars
           ELSE /\ cexec' = [cexec EXCEPT ![k].pc = "failed"]
                /\ UNCHANGED <<trackerVars, pnet>>
    /\ Fault(B2N(ok))
    /\ UNCHANGED <<now, alerts, body, nextCid, dlv, gated, exec, http, disp, status, upd>>

deploy_replacement_policy(k, ok) ==
    /\ k \in DOMAIN cexec /\ cexec[k].pc \in {"deploy_replacement", "deploy_new"}
    /\ LET r == cexec[k]
           T1 == update_tracker(Store, TheOne(r.replaced), POLICY_DEPLOYED,
                     [NoFields EXCEPT !.rqstStrtDt = {r.rstart}, !.rqstEndDt = {r.rend}])
       IN  IF ok
           THEN /\ header' = T1.h /\ detail' = T1.d /\ events' = T1.e
                /\ pnet' = deploy_policy(pnet, TheOne(r.new_policy), TRUE)
                /\ cexec' = [cexec EXCEPT ![k].pc = "complete"]
           ELSE /\ cexec' = [cexec EXCEPT ![k].pc = "failed"]
                /\ UNCHANGED <<trackerVars, pnet>>
    /\ Fault(B2N(ok))
    /\ UNCHANGED <<now, alerts, body, nextCid, dlv, gated, exec, http, disp, status, upd>>

\* cancel_policy without the branch for the extender's policy
cancelled_policies_own_only(P, r) ==
    IF r.policy_id = {} \/ ~(r.policy_id \subseteq P.policies) THEN {}
    ELSE r.policy_id

\* the policies cancel_policy deletes
cancelled_policies(P, r) ==
    IF r.policy_id = {} \/ ~(r.policy_id \subseteq P.policies) THEN {}
    ELSE r.policy_id \cup (IF r.current_stage = EXTENDED_BY THEN r.ext_policy ELSE {})

\* cancel_policy undeploying whatever it deletes
undeployed_policies_all(P, r) == cancelled_policies(P, r)

\* the policies cancel_policy calls undeploy for
undeployed_policies(P, r) ==
    IF r.policy_id = {} \/ ~(r.policy_id \subseteq P.policies) THEN {}
    ELSE (IF r.current_stage \in POLICY_DEPLOYED_STATES THEN r.policy_id ELSE {})
         \cup (IF r.current_stage = EXTENDED_BY /\ r.ext_stage \in POLICY_DEPLOYED_STATES
               THEN r.ext_policy ELSE {})

cancel_policy(k) ==
    /\ k \in DOMAIN cexec /\ cexec[k].pc \in {"undeploy", "cancel"}
    /\ LET r == cexec[k]
           stops == r.current_stage \in STEP_FUNCTION_IN_PROGRESS_STAGES
           gone == cancelled_policies(pnet, r)
       IN  IF stops /\ StopRaises(r.cid)
           THEN /\ cexec' = [cexec EXCEPT ![k].pc = "failed"]
                /\ UNCHANGED <<exec, pnet>>
           ELSE /\ exec' = IF stops THEN stop_execution(exec, r.cid) ELSE exec
                /\ pnet' = [pnet EXCEPT !.policies = @ \ gone, !.deployed = @ \ gone,
                                        !.undeploys = @ \cup undeployed_policies(pnet, r)]
                /\ cexec' = [cexec EXCEPT ![k].pc =
                                IF r.pc = "undeploy" THEN "create_new" ELSE "complete"]
    /\ Fault(0)
    /\ UNCHANGED <<now, trackerVars, alerts, body, nextCid, dlv, gated, http, disp, status, upd>>

\* cancel_complete with the event delivered before the tracker update
cancel_complete_event_first(k) ==
    /\ k \in DOMAIN cexec /\ cexec[k].pc = "complete"
    /\ LET T1 == update_tracker(deliver_event(Store, cexec[k].cid, CANCELLED),
                                cexec[k].cid, CANCELLED, NoFields)
       IN  /\ header' = T1.h /\ detail' = T1.d /\ events' = T1.e
    /\ cexec' = [cexec EXCEPT ![k].pc = "done"]
    /\ Fault(0)
    /\ UNCHANGED <<now, alerts, body, nextCid, dlv, gated, exec, pnet, http, disp, status, upd>>

cancel_complete(k) ==
    /\ k \in DOMAIN cexec /\ cexec[k].pc = "complete"
    /\ LET T1 == deliver_event(update_tracker(Store, cexec[k].cid, CANCELLED, NoFields),
                               cexec[k].cid, CANCELLED)
       IN  /\ header' = T1.h /\ detail' = T1.d /\ events' = T1.e
    /\ cexec' = [cexec EXCEPT ![k].pc = "done"]
    /\ Fault(0)
    /\ UNCHANGED <<now, alerts, body, nextCid, dlv, gated, exec, pnet, http, disp, status, upd>>

Outcomes == {"accepted", "subscription_error", "queue_error"}

\* the request API, the dispatchers and the override workflow, two requests
Next ==
    \/ Tick
    \/ \E b \in Bodies \cup BadBodies, o \in Outcomes : nextCid < MaxReq /\ job_entry(b, o)
    \/ \E c \in CorrIds : throttle_record_handler(c)
    \/ \E c \in CorrIds, ok \in BOOLEAN : throttle_initiate_step_function(c, ok)
    \/ \E m \in GroupBatches, ok \in BOOLEAN : throttle_group_handler(m, ok)
    \/ \E k \in CorrIds, ok1, ok2 \in BOOLEAN : override_create(k, ok1, ok2)
    \/ \E k \in CorrIds, ok \in BOOLEAN : override_deploy(k, ok)
    \/ \E c \in CorrIds, ok \in BOOLEAN : subgrp_group_records(c, ok)

Spec == Init /\ [][Next]_vars

\* requests on one meter, dispatched one by one without failures
ChainBodies ==
    {b \in Bodies : b.meter = "M1" /\ b.group = "" /\ b.via = "throttle"
                    /\ b.end - b.start = 5}

Dispatch ==
    \/ \E c \in CorrIds : gated[c] = 0 /\ throttle_record_handler(c)
    \/ \E c \in CorrIds : throttle_initiate_step_function(c, TRUE)
    \/ \E k \in CorrIds : override_create(k, TRUE, TRUE)
    \/ \E k \in CorrIds : override_deploy(k, TRUE)

Cancel ==
    \/ \E c \in CorrIds, sub \in Subscriptions, ok \in BOOLEAN : process_request(c, sub, ok)
    \/ \E k \in 1..MaxCancels, n \in 0..MaxReq + 1 : evaluate_request(k, n)
    \/ \E k \in 1..MaxCancels, ok \in BOOLEAN : cancel_create_policy(k, ok)
    \/ \E k \in 1..MaxCancels, ok \in BOOLEAN : deploy_replacement_policy(k, ok)
    \/ \E k \in 1..MaxCancels : cancel_policy(k)
    \/ \E k \in 1..MaxCancels : cancel_complete(k)

\* the cancel API and the cancel workflow on two requests of one meter
NextCancel ==
    \/ Tick
    \/ \E b \in ChainBodies : nextCid < MaxReq /\ job_entry(b, "accepted")
    \/ Dispatch
    \/ Cancel

SpecCancel == Init /\ [][NextCancel]_vars

\* no request is on its way through the dispatcher or the override workflow
Settled ==
    \A c \in CorrIds : /\ header[c].currentStg # RECEIVED
                       /\ exec[c].st # "running"

\* three requests of one meter and one direction, submitted one after the
\* other: a first window and then requests for the window that follows it
NextChain ==
    \/ Tick
    \/ \E b \in ChainBodies :
          /\ b.status = "ON" /\ b.start = (IF nextCid = 0 THEN 10 ELSE 15)
          /\ Settled
          /\ job_entry(b, "accepted")
    \/ Dispatch
    \/ Cancel

SpecChain == Init /\ [][NextChain]_vars

\* ------------------------------------------------------- extension chains
\* requests of one meter and one direction for three windows in a row; they
\* are submitted one after the other, each for the window of the request
\* before it or for the window that follows it
ExtendBodies ==
    {[meter |-> "M1", status |-> "ON", start |-> st, end |-> st + 5, group |-> "",
      via |-> "throttle"] : st \in {10, 15, 20}}

NextExtend ==
    \/ Tick
    \/ \E b \in ExtendBodies :
          /\ nextCid <= MaxReq
          /\ b.start \in {10 + 5 * nextCid, 5 + 5 * nextCid}
          /\ Settled
          /\ job_entry(b, "accepted")
    \/ Dispatch

SpecExtend == Init /\ [][NextExtend]_vars

\* the walk along extnds from the header of cid: the correlation id of the
\* header it ends at; 0 when a header on the way is missing (RuntimeError) or
\* when the walk has not ended after fuel steps
RECURSIVE get_terminal_request(_, _, _)
get_terminal_request(T, cid, fuel) ==
    IF T.h[cid] = NoItem THEN 0
    ELSE IF T.h[cid].extnds = {} THEN cid
    ELSE IF fuel = 0 THEN 0
    ELSE get_terminal_request(T, TheOne(T.h[cid].extnds), fuel - 1)

\* ------------------------------------------------------------ status API
HTTP_SUCCESS == 200
HTTP_NOT_FOUND == 404

\* the primary key tracker_utils writes on a header item
TRACKER_PK(cid) == <<"REQ#", cid>>
TRACKER_SK(cid) == <<"METADATA#", cid>>

\* the key the status lambda asks for
STATUS_PK(cid) == <<"REQ#", cid>>
STATUS_SK_stage_prefix(cid) == <<"STAGES#", cid>>
STATUS_SK(cid) == <<"METADATA#", cid>>

\* the items get_item returns for the key: one at most
status_items(T, cid) ==
    {c \in CorrIds : /\ T.h[c] # NoItem
                      /\ TRACKER_PK(c) = STATUS_PK(cid)
                      /\ TRACKER_SK(c) = STATUS_SK(cid)}

\* "" stands for RequestNotFoundException
get_status(T, cid) ==
    IF status_items(T, cid) # {} THEN T.h[TheOne(status_items(T, cid))].currentStg
    ELSE ""

status_job_entry(cid) ==
    /\ status' = IF status_items(Store, cid) # {}
                  THEN [statusCode |-> HTTP_SUCCESS, status |-> get_status(Store, cid),
                        correlation_id |-> cid]
                  ELSE [statusCode |-> HTTP_NOT_FOUND, status |-> "", correlation_id |-> cid]
    /\ UNCHANGED <<now, trackerVars, alerts, body, nextCid, dlv, gated, exec, pnet, cexec,
                   faults, http, disp, upd>>

\* the status API read while requests go through the dispatcher and the
\* override workflow
NextStatus ==
    \/ Tick
    \/ \E b \in ChainBodies : nextCid < MaxReq /\ job_entry(b, "accepted")
    \/ Dispatch
    \/ \E c \in CorrIds : status_job_entry(c)

SpecStatus == Init /\ [][NextStatus]_vars

\* ------------------------------------------- callers of the tracker functions
MaxStages == 3

TrackerIds == 1..2

UpdateStages == {QUEUED, POLICY_CREATED}

\* one caller at a time: a call of create_tracker
tracker_create(cid) ==
    LET T == create_tracker(Store, cid, SubscriptionId, Site, "M1", "ON", {})
    IN  /\ header' = T.h /\ detail' = T.d /\ events' = T.e
        /\ upd' = [upd EXCEPT ![1] = [NoCall EXCEPT !.op = "create_tracker", !.cid = cid,
                                                    !.pc = "done", !.new_stg_no = 1]]
        /\ UNCHANGED <<now, alerts, body, nextCid, dlv, gated, exec, pnet, cexec, faults,
                       http, disp, status>>

\* one caller at a time: a call of update_tracker; raised: TrackerException
tracker_update(cid, stage) ==
    LET T == update_tracker(Store, cid, stage, NoFields)
        found == get_header_record(Store, cid) # NoItem
    IN  /\ header[cid].noStages < MaxStages
        /\ header' = T.h /\ detail' = T.d /\ events' = T.e
        /\ upd' = [upd EXCEPT ![1] = [NoCall EXCEPT !.op = "update_tracker", !.cid = cid,
                                                    !.pc = "done", !.stage = stage,
                                                    !.raised = ~found,
                                                    !.new_stg_no =
                                                        IF found THEN header[cid].noStages + 1
                                                        ELSE 0]]
        /\ UNCHANGED <<now, alerts, body, nextCid, dlv, gated, exec, pnet, cexec, faults,
                       http, disp, status>>

NextTracker ==
    \/ \E c \in TrackerIds : tracker_create(c)
    \/ \E c \in TrackerIds, stage \in UpdateStages : tracker_update(c, stage)

SpecTracker == Init /\ [][NextTracker]_vars

EmptyStore == [h |-> [c \in CorrIds |-> NoItem], d |-> [c \in CorrIds |-> {}], e |-> {}]

\* two callers of update_tracker at once, statement by statement; the headers
\* have been created
InitRace ==
    /\ header = [c \in CorrIds |->
                    IF c \in TrackerIds
                    THEN create_tracker(EmptyStore, c, SubscriptionId, Site, "M1", "ON", {}).h[c]
                    ELSE NoItem]
    /\ detail = [c \in CorrIds |->
                    IF c \in TrackerIds
                    THEN create_tracker(EmptyStore, c, SubscriptionId, Site, "M1", "ON", {}).d[c]
                    ELSE {}]
    /\ events = {}
    /\ upd = [p \in Callers |-> NoCall]
    /\ now = TickMinutes
    /\ alerts = {}
    /\ body = [c \in CorrIds |-> NoBody]
    /\ nextCid = 0
    /\ dlv = [c \in CorrIds |-> 0]
    /\ gated = [c \in CorrIds |-> 0]
    /\ exec = [c \in CorrIds |-> NoExec]
    /\ pnet = [policies |-> {}, deployed |-> {}, calls |-> {}, npol |-> [c \in CorrIds |-> 0],
               undeploys |-> {}]
    /\ cexec = <<>>
    /\ faults = 0
    /\ http = NoResponse
    /\ disp = NoDispatch
    /\ status = NoStatus

\* update_tracker: get_header_record and the next stage number
update_read(p, cid, stage) ==
    LET hdr == get_header_record(Store, cid)
    IN  /\ upd[p].pc = "idle"
        /\ upd' = [upd EXCEPT ![p] =
                      IF hdr = NoItem
                      THEN [NoCall EXCEPT !.op = "update_tracker", !.cid = cid, !.stage = stage,
                                          !.pc = "done", !.raised = TRUE]
                      ELSE [NoCall EXCEPT !.op = "update_tracker", !.cid = cid, !.stage = stage,
                                          !.pc = "header", !.new_stg_no = hdr.noStages + 1]]
        /\ UNCHANGED <<now, trackerVars, alerts, body, nextCid, dlv, gated, exec, pnet, cexec,
                       faults, http, disp, status>>

\* update_tracker: update_header_record
update_write_header(p) ==
    LET T == update_header_record(Store, upd[p].cid, upd[p].stage, upd[p].new_stg_no, NoFields)
    IN  /\ upd[p].pc = "header"
        /\ header' = T.h /\ detail' = T.d /\ events' = T.e
        /\ upd' = [upd EXCEPT ![p].pc = "detail"]
        /\ UNCHANGED <<now, alerts, body, nextCid, dlv, gated, exec, pnet, cexec, faults,
                       http, disp, status>>

\* update_tracker: add_tracker_detail
update_add_detail(p) ==
    LET T == add_tracker_detail(Store, upd[p].cid, upd[p].new_stg_no, upd[p].stage)
    IN  /\ upd[p].pc = "detail"
        /\ header' = T.h /\ detail' = T.d /\ events' = T.e
        /\ upd' = [upd EXCEPT ![p].pc = "done"]
        /\ UNCHANGED <<now, alerts, body, nextCid, dlv, gated, exec, pnet, cexec, faults,
                       http, disp, status>>

NextRace ==
    \/ \E p \in Callers, c \in CorrIds, stage \in UpdateStages : update_read(p, c, stage)
    \/ \E p \in Callers : update_write_header(p)
    \/ \E p \in Callers : update_add_detail(p)

SpecRace == InitRace /\ [][NextRace]_vars

\* ------------------------------------------------- chunks of a dispatch unit
\* the Python slice s[a:b] of a list
Slice(s, a, b) ==
    IF a >= Len(s) THEN <<>>
    ELSE SubSeq(s, a + 1, IF b < Len(s) THEN b ELSE Len(s))

\* the member lists of the chunks dispatching_records returns, in order, for
\* the configured MAX_DISPATCH_COUNT
dispatching_records(records, MAX_DISPATCH_COUNT) ==
    LET record_len == Len(records)
        quotient == record_len \div MAX_DISPATCH_COUNT
        extra_data_cnt == record_len % MAX_DISPATCH_COUNT
        whole == IF quotient > 1 THEN quotient ELSE 1
        min_dispatch_count == MAX_DISPATCH_COUNT \div 2
        f_offset == IF extra_data_cnt <= min_dispatch_count
                    THEN MAX_DISPATCH_COUNT + extra_data_cnt ELSE 0
        record_cnt == IF min_dispatch_count < extra_data_cnt /\ whole >= 1
                      THEN whole + 1 ELSE whole
    IN  [i \in 1..record_cnt |->
            LET offset == IF i = record_cnt /\ f_offset # 0 THEN f_offset
                          ELSE MAX_DISPATCH_COUNT
            IN  Slice(records, (i - 1) * MAX_DISPATCH_COUNT,
                      (i - 1) * MAX_DISPATCH_COUNT + offset)]

\* the dispatch units: n members, numbered, under a configured maximum
DispatchUnits ==
    {[NoDispatch EXCEPT !.max = m, !.records = [i \in 1..n |-> i]] :
        m \in 2..MaxDispatchCount, n \in 1..MaxRecords}

InitDispatch ==
    /\ disp \in DispatchUnits
    /\ status = NoStatus
    /\ upd = [p \in Callers |-> NoCall]
    /\ now = TickMinutes
    /\ header = [c \in CorrIds |-> NoItem]
    /\ detail = [c \in CorrIds |-> {}]
    /\ events = {}
    /\ alerts = {}
    /\ body = [c \in CorrIds |-> NoBody]
    /\ nextCid = 0
    /\ dlv = [c \in CorrIds |-> 0]
    /\ gated = [c \in CorrIds |-> 0]
    /\ exec = [c \in CorrIds |-> NoExec]
    /\ pnet = [policies |-> {}, deployed |-> {}, calls |-> {}, npol |-> [c \in CorrIds |-> 0],
               undeploys |-> {}]
    /\ cexec = <<>>
    /\ faults = 0
    /\ http = NoResponse

\* the dispatcher splits the unit
dispatch_unit ==
    /\ ~disp.done
    /\ disp' = [disp EXCEPT !.chunks = dispatching_records(disp.records, disp.max),
                            !.done = TRUE]
    /\ UNCHANGED <<now, trackerVars, alerts, body, nextCid, dlv, gated, exec, pnet, cexec,
                   faults, http, status, upd>>

NextDispatch == dispatch_unit

SpecDispatch == InitDispatch /\ [][NextDispatch]_vars

\* ---------------------------------------------------------- contiguity split
MaxMembers == 3

\* the neighbour the query may have returned for a member: its direction and
\* the start of its chain
NeighbourKinds == {<<"none", 0>>} \cup (Statuses \X {0, 5})

\* buckets of a grouped request for the window that starts at 10: member i
\* is correlation id i on meter i; nb says which members have a neighbour
SplitUnits ==
    UNION {{[NoDispatch EXCEPT
                !.max = m, !.status = "ON",
                !.records = [i \in 1..n |-> [correlation_id |-> i, switch_addresses |-> i]],
                !.items = {[crrltnId |-> 10 + i, mtrSrlNo |-> i, overrdValue |-> nb[i][1],
                            original_start_datetime |-> nb[i][2], rqstStrtDt |-> 5] :
                              i \in {j \in 1..n : nb[j][1] # "none"}}] :
              nb \in [1..n -> NeighbourKinds], m \in 2..3} : n \in 1..MaxMembers}

\* contiguous_request_dict.get(switch_addresses): {} for None
existing_record(items, switch_addresses) ==
    {it \in items : it.mtrSrlNo = switch_addresses}

\* the key of grouped_data without the neighbour's direction
grouped_key_no_direction(req_status, existing) ==
    <<req_status, existing.original_start_datetime, existing.rqstStrtDt>>

grouped_key(req_status, existing) ==
    <<req_status, existing.overrdValue, existing.original_start_datetime, existing.rqstStrtDt>>

\* the loop over the members of the bucket; acc: request_data (the members
\* without a neighbour) and grouped_data (in insertion order)
RECURSIVE group_loop(_, _, _, _, _)
group_loop(items, req_status, members, i, acc) ==
    IF i > Len(members) THEN acc
    ELSE LET req_record == members[i]
             found == existing_record(items, req_record.switch_addresses)
             existing == TheOne(found)
             key == grouped_key(req_status, existing)
             at == {g \in DOMAIN acc.grouped_data : acc.grouped_data[g].key = key}
             policyType == IF req_status = existing.overrdValue THEN "contiguousExtension"
                           ELSE "contiguousCreation"
             next ==
                 IF found = {}
                 THEN [acc EXCEPT !.request_data = Append(@, req_record)]
                 ELSE IF at = {}
                 THEN [acc EXCEPT !.grouped_data =
                          Append(@, [key |-> key, policyType |-> policyType,
                                     site_switch_crl_id |-> <<req_record>>])]
                 ELSE [acc EXCEPT !.grouped_data[TheOne(at)].site_switch_crl_id =
                          Append(@, req_record)]
         IN  group_loop(items, req_status, members, i + 1, next)

\* the dispatch units of one class: its members in chunks
class_units(policyType, members, max) ==
    LET chunks == dispatching_records(members, max)
    IN  [i \in DOMAIN chunks |-> [policyType |-> policyType, members |-> chunks[i]]]

RECURSIVE dispatched_data(_, _, _)
dispatched_data(grouped_data, g, max) ==
    IF g > Len(grouped_data) THEN <<>>
    ELSE class_units(grouped_data[g].policyType, grouped_data[g].site_switch_crl_id, max)
         \o dispatched_data(grouped_data, g + 1, max)

\* the pair group_contiguous_requests returns: the units of the members
\* without a neighbour and the units of the members with one
group_contiguous_requests(items, request) ==
    LET acc == group_loop(items, request.status, request.records, 1,
                          [request_data |-> <<>>, grouped_data |-> <<>>])
    IN  <<IF Len(acc.request_data) > 0 THEN class_units("new", acc.request_data, request.max)
          ELSE <<>>,
          dispatched_data(acc.grouped_data, 1, request.max)>>

\* get_contiguous_request for a grouped request: the units it returns
get_contiguous_request_group(items, request) ==
    IF items = {} THEN class_units("new", request.records, request.max)
    ELSE LET pair == group_contiguous_requests(items, request)
         IN  pair[2] \o pair[1]

InitSplit ==
    /\ disp \in SplitUnits
    /\ status = NoStatus
    /\ upd = [p \in Callers |-> NoCall]
    /\ now = TickMinutes
    /\ header = [c \in CorrIds |-> NoItem]
    /\ detail = [c \in CorrIds |-> {}]
    /\ events = {}
    /\ alerts = {}
    /\ body = [c \in CorrIds |-> NoBody]
    /\ nextCid = 0
    /\ dlv = [c \in CorrIds |-> 0]
    /\ gated = [c \in CorrIds |-> 0]
    /\ exec = [c \in CorrIds |-> NoExec]
    /\ pnet = [policies |-> {}, deployed |-> {}, calls |-> {}, npol |-> [c \in CorrIds |-> 0],
               undeploys |-> {}]
    /\ cexec = <<>>
    /\ faults = 0
    /\ http = NoResponse

\* the contiguity query has answered; the bucket is split
split_unit ==
    /\ ~disp.done
    /\ disp' = [disp EXCEPT !.units = get_contiguous_request_group(disp.items, disp),
                            !.done = TRUE]
    /\ UNCHANGED <<now, trackerVars, alerts, body, nextCid, dlv, gated, exec, pnet, cexec,
                   faults, http, status, upd>>

NextSplit == split_unit

SpecSplit == InitSplit /\ [][NextSplit]_vars

\* ------------------------------------------- cancelling inside a window
\* a request for a window of two ticks and then a request of the same meter
\* and direction for the window that follows it, and the cancel API: the clock
\* comes to stand inside the first window
ReplaceBodies ==
    {[meter |-> "M1", status |-> "ON", start |-> 10, end |-> 20, group |-> "",
      via |-> "throttle"],
     [meter |-> "M1", status |-> "ON", start |-> 20, end |-> 25, group |-> "",
      via |-> "throttle"]}

NextReplace ==
    \/ Tick
    \/ \E b \in ReplaceBodies :
          /\ nextCid < MaxReq
          /\ b.start = (IF nextCid = 0 THEN 10 ELSE 20)
          /\ Settled
          /\ job_entry(b, "accepted")
    \/ Dispatch
    \/ Cancel

SpecReplace == Init /\ [][NextReplace]_vars

\* ------------------------------------------------------------------ claims
Sinks == {DECLINED, CANCELLED, DLC_OVERRIDE_FINISHED, DLC_OVERRIDE_FAILURE}

\* the header carries the request's window
Dated(c) == header[c] # NoItem /\ header[c].rqstStrtDt # {} /\ header[c].rqstEndDt # {}

StartOf(c) == TheOne(header[c].rqstStrtDt)

EndOf(c) == TheOne(header[c].rqstEndDt)

StageNames(c) == {r.stgName : r \in detail[c]}

\* the stage records of c that carry the stage name
Records(c, stage) == {r \in detail[c] : r.stgName = stage}

\* C1: no two requests of one (site, meter) whose current stage is neither
\* DECLINED nor CANCELLED have overlapping [start, end) windows, unless one of
\* them extends the other.
C1_NoOverlap ==
    \A c, d \in CorrIds :
        (/\ c # d /\ Dated(c) /\ Dated(d)
         /\ header[c].site = header[d].site /\ header[c].mtrSrlNo = header[d].mtrSrlNo
         /\ header[c].currentStg \notin {DECLINED, CANCELLED}
         /\ header[d].currentStg \notin {DECLINED, CANCELLED}
         /\ header[c].extnds # {d} /\ header[d].extnds # {c})
        => ~(StartOf(c) < EndOf(d) /\ StartOf(d) < EndOf(c))

\* C2: DECLINED, CANCELLED, DLC_OVERRIDE_FINISHED and DLC_OVERRIDE_FAILURE are
\* sinks: a stage record of one of these names is the last stage record of
\* its request, and a header that shows one of them keeps showing it.
C2_SinksAreLast ==
    \A c \in CorrIds : \A r \in detail[c] :
        r.stgName \in Sinks => /\ r.stg = header[c].noStages
                               /\ \A q \in detail[c] : q.stg <= r.stg

\* C3: however often a request is delivered, one execution at most is started
\* for it and its header gets one QUEUED stage record at most; an invocation
\* that meets ExecutionAlreadyExists changes neither the tracker nor the event
\* stream nor the executions and reports nothing to support.
C3_OneQueued ==
    \A c \in CorrIds :
        /\ Cardinality(Records(c, QUEUED)) <= 1
        /\ Cardinality({k \in CorrIds :
               exec[k].st # "none" /\ \E i \in DOMAIN exec[k].members :
                                          exec[k].members[i] = c}) <= 1

C3_CollisionIsSuccess ==
    \A c \in CorrIds :
        (/\ gated[c] > 0 /\ gated'[c] = gated[c] - 1 /\ ExecutionAlreadyExists(c))
        => UNCHANGED <<header, detail, events, alerts, exec>>

C3_ExactlyOnce == []C3_OneQueued /\ [][C3_CollisionIsSuccess]_vars

\* a delivery met ExecutionAlreadyExists: the request is queued once, its
\* execution exists and support has heard nothing
C3_Witness ==
    \E c \in CorrIds :
        /\ body[c].via = "throttle" /\ dlv[c] = 2 /\ gated[c] = 0
        /\ exec[c].st = "running" /\ Cardinality(Records(c, QUEUED)) = 1
        /\ c \notin alerts

DeployedThenExtended(d) ==
    \E r \in Records(d, POLICY_DEPLOYED), q \in Records(d, EXTENDED_BY) : r.stg < q.stg

\* C5: a header that records that its request extends x implies that x's
\* header records that it is extended by that request, and both have the
\* same site, meter and override status.
C5_ExtendsSymmetric ==
    \A c \in CorrIds : \A x \in header[c].extnds :
        /\ header[x].extnddBy = {c}
        /\ header[x].site = header[c].site
        /\ header[x].mtrSrlNo = header[c].mtrSrlNo
        /\ header[x].overrdValue = header[c].overrdValue

\* C6: every request that was moved to QUEUED has a QUEUED event in the event
\* stream, assembled after the tracker showed QUEUED.
C6_QueuedEvent ==
    \A c \in CorrIds :
        Records(c, QUEUED) # {} =>
            [cid |-> c, milestone |-> QUEUED, seen |-> QUEUED] \in events

\* the stage records numbered 1..n that carry the names of the sequence s
StageRecords(s, n) == {[stg |-> i, stgName |-> s[i]] : i \in 1..n}

CleanStages == <<RECEIVED, QUEUED, POLICY_CREATED, POLICY_DEPLOYED>>

\* no other request on the meter, and no failure recorded for the request
Clean(c) ==
    /\ header[c] # NoItem
    /\ DECLINED \notin StageNames(c)
    /\ \A d \in CorrIds \ {c} :
          header[d] = NoItem \/ header[d].mtrSrlNo # header[c].mtrSrlNo

EventsOf(c) == {e \in events : e.cid = c}

CallsFor(c) == {k \in pnet.calls : k.cid = c /\ k.by = "override"}

\* C8: a request that extended a deployed same-direction neighbour and was deployed
\* leaves the neighbour in EXTENDED_BY(request) and records EXTENDS,
\* POLICY_EXTENDED, POLICY_DEPLOYED after QUEUED and no POLICY_CREATED; the
\* provider was called with replace = true, and an event was emitted for the
\* EXTENDED_BY and for the EXTENDS transition.
C8_SameDirection ==
    \A c, d \in CorrIds :
        (/\ header[c].extnds = {d} /\ header[c].currentStg = POLICY_DEPLOYED
         /\ DeployedThenExtended(d)) =>
            /\ header[d].currentStg = EXTENDED_BY /\ header[d].extnddBy = {c}
            /\ detail[c] = StageRecords(<<RECEIVED, QUEUED, STAGE_EXTENDS, POLICY_EXTENDED,
                                          POLICY_DEPLOYED>>, 5)
            /\ \A k \in CallsFor(c) : k.replace
            /\ \E e \in EventsOf(d) : e.milestone = EXTENDED_BY
            /\ \E e \in EventsOf(c) : e.milestone = STAGE_EXTENDS

\* d is a deployed neighbour of c of the opposite direction: it ends where c starts
OppositeNeighbour(c, d) ==
    /\ c # d /\ Dated(c) /\ Dated(d)
    /\ header[d].mtrSrlNo = header[c].mtrSrlNo
    /\ header[d].overrdValue # header[c].overrdValue
    /\ EndOf(d) = body[c].start
    /\ header[d].currentStg = POLICY_DEPLOYED

\* C9: a request that met a deployed neighbour of the opposite direction, and
\* for which the provider's calls succeeded, has its policy created with
\* replace = true and with the requested start moved forward by
\* OPPOSITE_SWITCH_DIRECTION_BACKOFF, and records POLICY_CREATED.
C9_OppositeDirection ==
    \A c, d \in CorrIds :
        (/\ OppositeNeighbour(c, d)
         /\ \E k \in CallsFor(c) : k.replace
         /\ DECLINED \notin StageNames(c)
         /\ header[c].currentStg \in {POLICY_CREATED, POLICY_DEPLOYED}) =>
            /\ \A k \in CallsFor(c) :
                  k.replace /\ k.start = body[c].start + OPPOSITE_SWITCH_DIRECTION_BACKOFF
            /\ Cardinality(Records(c, POLICY_CREATED)) = 1

\* C10: when the cancel workflow of a request that extends a deployed
\* same-direction neighbour has completed before the neighbour's start, the request is
\* CANCELLED, the neighbour is POLICY_DEPLOYED with its own window, and the
\* cancel workflow made no create or replace call to the provider.
C10_CancelExtenderEarly ==
    \A k \in DOMAIN cexec : \A d \in CorrIds :
        (/\ cexec[k].pc = "done"
         /\ header[cexec[k].cid].extnds = {d}
         /\ DeployedThenExtended(d)
         /\ now < StartOf(d)) =>
            /\ header[cexec[k].cid].currentStg = CANCELLED
            /\ header[d].currentStg = POLICY_DEPLOYED
            /\ StartOf(d) = body[d].start /\ EndOf(d) = body[d].end
            /\ \A call \in pnet.calls : call.by # "cancel"

\* a cancel workflow that has completed for a request captured in EXTENDED_BY,
\* the request having been deployed before it was extended
CancelledExtended(k) ==
    /\ k \in DOMAIN cexec /\ cexec[k].pc = "done"
    /\ cexec[k].current_stage = EXTENDED_BY
    /\ DeployedThenExtended(cexec[k].cid)

NewCall == Len(cexec') = Len(cexec) + 1

TheCall == cexec'[Len(cexec')]

C12_Stages ==
    {RECEIVED, QUEUED, POLICY_CREATED, POLICY_DEPLOYED, POLICY_EXTENDED, EXTENDED_BY,
     STAGE_EXTENDS, DLC_OVERRIDE_STARTED}

\* the header exists, carries no group id, is of the caller's subscription
\* and shows a stage a request can be cancelled from
C12_Preconditions(hdr, sub) ==
    /\ hdr # NoItem
    /\ hdr.group_id = {}
    /\ hdr.subId = sub
    /\ hdr.currentStg \in C12_Stages

\* the header shows an end date that is not after now
EndNotAfterNow(hdr) == hdr # NoItem /\ hdr.rqstEndDt # {} /\ TheOne(hdr.rqstEndDt) <= now

\* C12: a call of the cancel API whose preconditions do not all hold is
\* answered 400, starts no cancel workflow and changes no tracker record; a
\* call whose preconditions hold (for a request that has not ended, the engine
\* answering without failure) starts one cancel workflow and is answered 200.
C12_CancelEntry ==
    [][NewCall =>
         LET hdr == header[TheCall.cid]
         IN  /\ ~C12_Preconditions(hdr, TheCall.sub) =>
                   /\ TheCall.code = BAD_REQUEST /\ TheCall.pc = "rejected"
                   /\ UNCHANGED trackerVars
             /\ (/\ C12_Preconditions(hdr, TheCall.sub)
                 /\ ~EndNotAfterNow(hdr)
                 /\ faults' = faults) =>
                   /\ TheCall.code = HTTP_OK /\ TheCall.pc = "evaluate"]_vars

\* C13: a call of the cancel API for a request whose end is not after now,
\* the end equal to now included, is answered 400 and starts no cancel
\* workflow (the engine answering without failure where it is asked).
C13_EndStrictlyAfterNow ==
    [][(NewCall /\ EndNotAfterNow(header[TheCall.cid]) /\ faults' = faults) =>
          TheCall.code = BAD_REQUEST /\ TheCall.pc = "rejected"]_vars

CancelledEvent(c) == [cid |-> c, milestone |-> CANCELLED, seen |-> CANCELLED]

\* a cancel workflow completes in this step
Completes(k) == k \in DOMAIN cexec /\ cexec[k].pc # "done" /\ cexec'[k].pc = "done"

C14_AtCompletion ==
    \A k \in 1..MaxCancels :
        Completes(k) =>
            /\ header'[cexec[k].cid].currentStg = CANCELLED
            /\ CancelledEvent(cexec[k].cid) \in events' \ events

C14_Completed ==
    \A k \in DOMAIN cexec :
        cexec[k].pc = "done" =>
            /\ Records(cexec[k].cid, CANCELLED) # {}
            /\ \A e \in EventsOf(cexec[k].cid) :
                  e.milestone = CANCELLED => e = CancelledEvent(cexec[k].cid)

\* C14: the step that completes a cancel workflow leaves the cancelled
\* request's header in CANCELLED and emits a CANCELLED event for it, assembled
\* after the tracker showed CANCELLED; a completed workflow has recorded the
\* CANCELLED stage and no CANCELLED event of the request was assembled before.
C14_EndsCancelled == []C14_Completed /\ [][C14_AtCompletion]_vars

C14_Witness ==
    \E k \in DOMAIN cexec :
        /\ cexec[k].pc = "done" /\ cexec[k].replace = REPLACE_SECOND_REQUEST
        /\ header[cexec[k].cid].currentStg = CANCELLED
        /\ CancelledEvent(cexec[k].cid) \in events

\* the submissions a step may be: every body and every answer of the environment
Submissions == (Bodies \cup BadBodies) \X Outcomes

MSG_END_IN_PAST == "Request's end date is in the past"

\* C15: a submission (start before end) whose end is not after now, the end
\* equal to now included, is rejected by the syntactic validation with the
\* error that the end date is in the past.
C15_EndAfterNowAtAcceptance ==
    [][\A sub \in Submissions :
          (/\ sub[1].start < sub[1].end /\ sub[1].end <= now
           /\ job_entry(sub[1], sub[2])) =>
              /\ http'.statusCode = BAD_REQUEST /\ http'.correlation_id = 0
              /\ MSG_END_IN_PAST \in http'.errorDetails]_vars

\* the requests of the meter that the validation is to consider: dated and
\* neither cancelled, declined nor finished
Existing(meter) ==
    {c \in CorrIds : /\ Dated(c) /\ header[c].site = Site /\ header[c].mtrSrlNo = meter
                     /\ header[c].currentStg \notin {CANCELLED, DECLINED,
                                                      DLC_OVERRIDE_FINISHED}}

IsDuplicate(c, s, e) == StartOf(c) = s /\ EndOf(c) = e

IsContiguous(c, s, e) == EndOf(c) = s \/ StartOf(c) = e

\* neither a duplicate nor contiguous, and the windows intersect
IsOverlap(c, s, e) ==
    ~IsDuplicate(c, s, e) /\ ~IsContiguous(c, s, e) /\ StartOf(c) < e /\ s < EndOf(c)

\* C16: the temporal validation of a window against the existing requests of
\* its meter gives no error when every intersecting request is contiguous,
\* the duplicate error when the only conflicts are duplicates, the overlap
\* error when the only conflicts are overlaps, and never more than one error.
C16_OneOutcome ==
    \A w \in Windows : \A m \in Meters :
        LET request == [meter |-> m, start |-> w[1], end |-> w[2]]
            errors == validate_request_duration(Store, request)
            dups == {c \in Existing(m) : IsDuplicate(c, w[1], w[2])}
            overs == {c \in Existing(m) : IsOverlap(c, w[1], w[2])}
        IN  /\ Cardinality(errors) <= 1
            /\ (dups = {} /\ overs = {}) => errors = {}
            /\ (dups # {} /\ overs = {}) => errors = {MSG_DUPLICATE}
            /\ (dups = {} /\ overs # {}) => errors = {MSG_OVERLAP}
            /\ (dups # {} /\ overs # {}) => errors \in {{MSG_DUPLICATE}, {MSG_OVERLAP}}

\* the submitted window conflicts with an existing request of its meter
Conflicts(b) ==
    \E c \in Existing(b.meter) :
        IsDuplicate(c, b.start, b.end) \/ IsOverlap(c, b.start, b.end)

\* C17: a valid submission that duplicates or overlaps an existing request of
\* its meter (the subscription being active) is answered 400, its header is
\* moved from RECEIVED to DECLINED, a DECLINED event is emitted for it and it
\* is not placed on the queue.
C17_ConflictDeclined ==
    [][\A sub \in Submissions :
          (/\ validate_dlc_override_request(sub[1], now) = {}
           /\ Conflicts(sub[1]) /\ sub[2] # "subscription_error"
           /\ job_entry(sub[1], sub[2])) =>
              LET cid == nextCid'
              IN  /\ http'.statusCode = BAD_REQUEST /\ http'.correlation_id = cid
                  /\ header'[cid].currentStg = DECLINED
                  /\ {r.stgName : r \in detail'[cid]} = {RECEIVED, DECLINED}
                  /\ \E e \in events' : e.cid = cid /\ e.milestone = DECLINED
                  /\ body'[cid] = NoBody]_vars

\* C18: a valid submission that the queue does not take is answered 500 with
\* its correlation id and the error, its header is moved from RECEIVED to
\* DECLINED and a DECLINED event is delivered for it.
C18_QueueFailure ==
    [][\A sub \in Submissions :
          (/\ validate_dlc_override_request(sub[1], now) = {}
           /\ sub[2] = "queue_error"
           /\ job_entry(sub[1], sub[2])) =>
              LET cid == nextCid'
              IN  /\ http'.statusCode = INTERNAL_SERVER_ERROR
                  /\ http'.correlation_id = cid /\ http'.errorDetails # {}
                  /\ header'[cid].currentStg = DECLINED
                  /\ {r.stgName : r \in detail'[cid]} = {RECEIVED, DECLINED}
                  /\ \E e \in events' : e.cid = cid /\ e.milestone = DECLINED]_vars

\* the errors of a window, stated from the rules of a valid window
WindowErrors(b, t) ==
    {m \in {"Request's end date is the same as the start date",
            "Request's end date is before the start date", MSG_END_IN_PAST} :
        \/ m = "Request's end date is the same as the start date" /\ b.end = b.start
        \/ m = "Request's end date is before the start date" /\ b.end < b.start
        \/ m = MSG_END_IN_PAST /\ b.end < t}

\* C19: a submission that fails the syntactic validation is answered 400
\* with every validation error and a null correlation id, and nothing else
\* changes: no correlation id, no tracker item, nothing queued.
C19_InvalidHasNoEffect ==
    [][\A sub \in Submissions :
          (WindowErrors(sub[1], now) # {} /\ job_entry(sub[1], sub[2])) =>
              /\ http'.statusCode = BAD_REQUEST /\ http'.correlation_id = 0
              /\ http'.errorDetails = WindowErrors(sub[1], now)
              /\ UNCHANGED <<now, header, detail, events, alerts, body, nextCid, dlv,
                             gated, exec, pnet, cexec, faults>>]_vars

C19_Witness ==
    /\ http.statusCode = BAD_REQUEST /\ http.correlation_id = 0
    /\ Cardinality(http.errorDetails) = 2
    /\ nextCid = 1 /\ header[1].currentStg = QUEUED /\ header[2] = NoItem

\* the sizes of the chunks of the unit that was split
ChunkSizes == [i \in DOMAIN disp.chunks |-> Len(disp.chunks[i])]

\* C20: every chunk but the last has at most MAX_DISPATCH_COUNT members; a
\* trailing remainder smaller than MAX_DISPATCH_COUNT / 2 is folded into the
\* chunk before it, and a trailing remainder of MAX_DISPATCH_COUNT / 2 or
\* more members is not folded and is a chunk of its own.
C20_ChunkSizes ==
    disp.done =>
        LET n == Len(disp.records)
            max == disp.max
            r == n % max
            last == Len(disp.chunks)
        IN  /\ \A i \in 1..(last - 1) : ChunkSizes[i] <= max
            /\ ChunkSizes[last] <= max \/ (2 * r < max /\ ChunkSizes[last] = max + r)
            /\ (n > max /\ 0 < r /\ 2 * r < max) => ChunkSizes[last] = max + r
            /\ (n > max /\ 2 * r >= max) =>
                  /\ ChunkSizes[last] = r
                  /\ \A i \in 1..(last - 1) : ChunkSizes[i] = max

\* C21: a read through the status API answers 200 with the current stage of
\* the header as it is at the read; for a correlation id without a header it
\* answers 404; in both cases nothing but the response changes.
C21_StatusRead ==
    [][\A c \in CorrIds :
          status_job_entry(c) =>
              /\ header[c] # NoItem =>
                    /\ status'.statusCode = 200
                    /\ status'.status = header[c].currentStg
              /\ header[c] = NoItem => status'.statusCode = 404 /\ status'.status = ""
              /\ status'.correlation_id = c
              /\ UNCHANGED <<header, detail, events, alerts, exec, pnet, body>>]_vars

C21_Witness ==
    /\ status.statusCode = 200
    /\ status.status = POLICY_DEPLOYED
    /\ header[status.correlation_id].currentStg = POLICY_DEPLOYED

\* C22: create_tracker on a correlation id without a header writes a header
\* in RECEIVED with stage count 1 and stage record 1; on a correlation id
\* that has a header it fails and leaves the header and its stage records
\* as they are.
C22_CreateHeader ==
    [][\A c \in TrackerIds :
          tracker_create(c) =>
              /\ header[c] = NoItem =>
                    /\ header'[c].currentStg = RECEIVED
                    /\ header'[c].noStages = 1
                    /\ detail'[c] = {[stg |-> 1, stgName |-> RECEIVED]}
              /\ header[c] # NoItem => UNCHANGED <<header, detail>>]_vars

\* C23: update_tracker on a correlation id without a header raises and leaves
\* the tracker as it is; on a header it appends the stage record whose number
\* is the stage count of the header after the update.
C23_UpdateHeader ==
    [][\A c \in TrackerIds, stage \in UpdateStages :
          tracker_update(c, stage) =>
              /\ header[c] = NoItem =>
                    upd'[1].raised /\ UNCHANGED <<header, detail, events>>
              /\ header[c] # NoItem =>
                    /\ ~upd'[1].raised
                    /\ header'[c].noStages = header[c].noStages + 1
                    /\ header'[c].currentStg = stage
                    /\ [stg |-> header'[c].noStages, stgName |-> stage] \in detail'[c]]_vars

C23_Witness ==
    /\ upd[1].op = "update_tracker" /\ upd[1].raised
    /\ header[upd[1].cid] = NoItem
    /\ \E c \in TrackerIds : header[c].noStages = 2 /\ Cardinality(detail[c]) = 2

\* the callers that have completed an update of the header of c
Updated(c) == {p \in Callers : upd[p].cid = c /\ upd[p].pc = "done" /\ ~upd[p].raised}

\* C24: when no update of a header is under way, every completed update has
\* raised its stage count by one and left a stage record of its own: the
\* stage numbers are 1..stage count, one record each.
C24_Serialized ==
    \A c \in TrackerIds :
        (\A p \in Callers : upd[p].cid = c => upd[p].pc \in {"idle", "done"}) =>
            /\ header[c].noStages = 1 + Cardinality(Updated(c))
            /\ {r.stg : r \in detail[c]} = 1..header[c].noStages
            /\ Cardinality(detail[c]) = header[c].noStages

\* the replace calls the override workflow made to extend for request c
ExtendCalls(c) == {k \in CallsFor(c) : k.replace}

\* C25: a request that extends another has had the provider replace the
\* policy from the start of the terminal request of its chain, for the
\* minutes from that start to its own end.
C25_TerminalStart ==
    \A c \in CorrIds :
        (header[c] # NoItem /\ header[c].extnds # {}) =>
            LET terminal == get_terminal_request(Store, c, MaxReq + 1)
            IN  \A k \in ExtendCalls(c) :
                    /\ terminal # 0
                    /\ k.start = StartOf(terminal)
                    /\ k.duration = body[c].end - StartOf(terminal)

\* C26: the walk along extnds from any header ends, at a header that
\* extends nothing.
C26_Acyclic ==
    \A c \in CorrIds :
        header[c] # NoItem =>
            LET terminal == get_terminal_request(Store, c, MaxReq + 1)
            IN  terminal # 0 /\ header[terminal] # NoItem /\ header[terminal].extnds = {}

C26_Witness ==
    /\ header[3] # NoItem /\ header[3].extnds = {2}
    /\ header[2].extnds = {1}
    /\ get_terminal_request(Store, 3, MaxReq + 1) = 1

\* the neighbours the contiguity query finds for the request of an execution
Neighbours(k) == new_get_contiguous_request(Store, k)

\* C27: when the contiguity query finds more than one neighbour for a single
\* request, the create step halts the workflow: the provider is not called
\* and no header moves to EXTENDED_BY.
C27_ManyNeighboursHalt ==
    [][\A k \in CorrIds :
          (/\ Cardinality(Neighbours(k)) > 1
           /\ ~IsGroup(k)
           /\ validate_dlc_override_request(body[k], now) = {}
           /\ \E ok1, ok2 \in BOOLEAN : override_create(k, ok1, ok2)) =>
              /\ exec'[k].st = "failed"
              /\ pnet' = pnet
              /\ \A c \in CorrIds :
                    header'[c].currentStg = EXTENDED_BY => header[c].currentStg = EXTENDED_BY]_vars

\* the class of a member of the bucket that was split
ClassOf(member) ==
    LET found == {it \in disp.items : it.mtrSrlNo = member.switch_addresses}
    IN  IF found = {} THEN "new"
        ELSE IF \A it \in found : it.overrdValue = disp.status THEN "contiguousExtension"
        ELSE "contiguousCreation"

\* the places of a member in the emitted units
PlacesOf(member) ==
    {pl \in (DOMAIN disp.units) \X (1..MaxMembers) :
        /\ pl[2] \in DOMAIN disp.units[pl[1]].members
        /\ disp.units[pl[1]].members[pl[2]] = member}

\* C28: every member of a bucket is in exactly one emitted unit, the unit
\* has the member's class (new, contiguousExtension, contiguousCreation), and
\* every class that has a member has a unit.
C28_ContiguitySplit ==
    disp.done =>
        /\ \A i \in DOMAIN disp.records : Cardinality(PlacesOf(disp.records[i])) = 1
        /\ \A u \in DOMAIN disp.units :
              /\ disp.units[u].policyType \in {"new", "contiguousExtension", "contiguousCreation"}
              /\ \A j \in DOMAIN disp.units[u].members :
                    ClassOf(disp.units[u].members[j]) = disp.units[u].policyType
        /\ \A i \in DOMAIN disp.records :
              \E u \in DOMAIN disp.units :
                  disp.units[u].policyType = ClassOf(disp.records[i])

C28_Witness ==
    /\ disp.done
    /\ Len(disp.records) = 3
    /\ {ClassOf(disp.records[i]) : i \in 1..3} = {"new", "contiguousExtension", "contiguousCreation"}
    /\ Len(disp.units) >= 3

\* the members of a batch whose header is still in RECEIVED
PendingOf(members) ==
    {c \in {members[i] : i \in DOMAIN members} : header[c].currentStg = RECEIVED}

\* C29: a delivered request whose header is past RECEIVED is dropped: no
\* tracker write, no execution; of a grouped unit the members still in
\* RECEIVED are dispatched (the handler, given the unit, moves them to QUEUED)
\* and the other members are left as they are, and a unit without a pending
\* member is dropped.
C29_DispatcherFilter ==
    /\ [](\A m \in GroupBatches :
            (PendingOf(m) # {} /\ GroupData(m).end > now) =>
                ENABLED (/\ throttle_group_handler(m, TRUE)
                         /\ \A c \in PendingOf(m) : header'[c].currentStg = QUEUED))
    /\ [][/\ \A c \in CorrIds :
              (throttle_record_handler(c) /\ header[c].currentStg # RECEIVED) =>
                  UNCHANGED <<header, detail, events, exec, gated>>
          /\ \A m \in GroupBatches :
              throttle_group_handler(m, TRUE) =>
                  /\ \A c \in CorrIds \ PendingOf(m) :
                        header'[c] = header[c] /\ detail'[c] = detail[c]
                  /\ PendingOf(m) = {} => UNCHANGED <<events, exec>>]_vars

MembersOf(members) == {members[i] : i \in DOMAIN members}

\* what a failed start leaves for member c: DECLINED on the header and as the
\* new stage record, a DECLINED event (events are a set: one delivered again
\* for the same request is the one there is), an alert, and no QUEUED
DeclinedByStart(c) ==
    /\ header'[c].currentStg = DECLINED
    /\ [stg |-> header'[c].noStages, stgName |-> DECLINED] \in detail'[c] \ detail[c]
    /\ \E e \in events' : e.cid = c /\ e.milestone = DECLINED
    /\ c \in alerts'
    /\ \A r \in detail'[c] \ detail[c] : r.stgName # QUEUED

NewStages(c) == {r.stgName : r \in detail'[c] \ detail[c]}

\* what a step in which the provider has refused a call leaves: every member
\* of the unit DECLINED, none of the success stages recorded, no request moved
\* to EXTENDED_BY, and the execution failed (the status the step returns is
\* what the engine's choice of the next state reads)
ProviderFailure(key) ==
    /\ \A c \in MembersOf(exec[key].members) :
          /\ header'[c].currentStg = DECLINED
          /\ NewStages(c) \cap {POLICY_CREATED, POLICY_EXTENDED, STAGE_EXTENDS,
                                POLICY_DEPLOYED} = {}
    /\ \A c \in CorrIds : EXTENDED_BY \notin NewStages(c)
    /\ exec'[key].st = "failed"

\* C32: in the override workflow, when the provider answers a create, a
\* replace or a deploy with a status other than 200, or the deploy step is
\* given no policy id, every member moves to DECLINED, none records
\* POLICY_CREATED, POLICY_EXTENDED, EXTENDS or POLICY_DEPLOYED in that step,
\* the neighbour is not moved to EXTENDED_BY, and the engine is given the
\* failure.
C32_ProviderFailure ==
    [][\A k \in CorrIds :
          /\ (\E ok1, ok2 \in BOOLEAN :
                 /\ ~(ok1 /\ ok2)
                 /\ validate_dlc_override_request(body[k], now) = {}
                 /\ override_create(k, ok1, ok2)) => ProviderFailure(k)
          /\ (override_deploy(k, FALSE)
              \/ (exec[k].policyID = {} /\ override_deploy(k, TRUE)))
                 => ProviderFailure(k)]_vars

\* the one neighbour of k, of k's direction, whose policy the create step of k
\* extends without raising
ExtendedNeighbour(k) ==
    {n \in new_get_contiguous_request(Store, k) :
        /\ new_get_contiguous_request(Store, k) = {n}
        /\ header[n].overrdValue = body[k].status
        /\ header[n].original_start_datetime # {}}

PoliciesOf(P, c) == {p \in P.policies : p[1] = c}

\* C34: cancelling a request on the path without a neighbour: a running
\* override execution of it is stopped (stages QUEUED, POLICY_CREATED,
\* POLICY_EXTENDED); if a policy id is recorded and the policy exists, it is
\* undeployed exactly when the stage is POLICY_DEPLOYED, DLC_OVERRIDE_STARTED
\* or EXTENDED_BY and then deleted; the request ends in CANCELLED and the
\* provider holds no policy of it.
C34_CancelSingle ==
    [][\A k \in 1..MaxCancels :
          /\ (cancel_policy(k) /\ cexec[k].pc = "cancel") =>
                LET r == cexec[k]
                    there == IF r.policy_id # {} /\ r.policy_id \subseteq pnet.policies
                             THEN r.policy_id ELSE {}
                IN  /\ r.current_stage \in {QUEUED, POLICY_CREATED, POLICY_EXTENDED} =>
                          exec'[r.cid].st # "running"
                    /\ pnet'.policies = pnet.policies \ there
                    /\ pnet'.deployed = pnet.deployed \ there
                    /\ pnet'.undeploys = pnet.undeploys \cup
                          (IF r.current_stage \in {POLICY_DEPLOYED, DLC_OVERRIDE_STARTED,
                                                   EXTENDED_BY}
                           THEN there ELSE {})
                    /\ cexec'[k].pc = "complete"
          /\ (cancel_complete(k) /\ cexec[k].replace = "false") =>
                /\ header'[cexec[k].cid].currentStg = CANCELLED
                /\ PoliciesOf(pnet', cexec[k].cid) = {}]_vars

\* the cancel workflow k is on the path that replaces the first request
ReplacesFirst(k) == k \in DOMAIN cexec /\ cexec[k].replace = REPLACE_FIRST_REQUEST

\* the cancel call k is the only one made so far: no other cancel workflow
\* runs beside it
SoleCancel(k) == DOMAIN cexec = {k}

C36_OneCreateCall ==
    [][\A k \in CorrIds :
          (/\ override_create(k, TRUE, TRUE)
           /\ ~IsGroup(k)
           /\ validate_dlc_override_request(body[k], now) = {}) =>
              /\ Cardinality(pnet'.calls \ pnet.calls) = 1
              /\ Cardinality({r \in detail'[k] \ detail[k] :
                                 r.stgName \in {POLICY_CREATED, POLICY_EXTENDED}}) = 1
              /\ POLICY_EXTENDED \in NewStages(k) =>
                    \A c \in pnet'.calls \ pnet.calls : c.replace]_vars

\* the chunks of a unit one after the other
RECURSIVE Concatenated(_, _)
Concatenated(chunks, i) ==
    IF i > Len(chunks) THEN <<>> ELSE chunks[i] \o Concatenated(chunks, i + 1)

\* C37: the chunks dispatching_records returns, one after the other, are the
\* member list it was given (no member lost, none repeated), and no chunk is
\* empty.
C37_Partition ==
    disp.done =>
        /\ Concatenated(disp.chunks, 1) = disp.records
        /\ \A i \in DOMAIN disp.chunks : disp.chunks[i] # <<>>

\* C38: the evaluation of a cancelled request in POLICY_EXTENDED,
\* POLICY_DEPLOYED or DLC_OVERRIDE_STARTED with a neighbour of its direction,
\* at any now before the neighbour's end: it selects the replacement of the
\* first request when the neighbour is enforcing (start <= now < end) and
\* reinstates the neighbour to POLICY_DEPLOYED when now < start; at
\* now = start the neighbour counts as enforcing.
C38_ScenarioTotal ==
    [][\A k \in 1..MaxCancels, n \in CorrIds :
          (/\ evaluate_request(k, n)
           /\ cexec[k].current_stage \in
                  {POLICY_EXTENDED, POLICY_DEPLOYED, DLC_OVERRIDE_STARTED}
           /\ header[n].overrdValue = header[cexec[k].cid].overrdValue
           /\ now < TheOne(header[n].rqstEndDt)) =>
              IF TheOne(header[n].rqstStrtDt) <= now
              THEN /\ cexec'[k].replace = REPLACE_FIRST_REQUEST
                   /\ cexec'[k].replaced = {n}
              ELSE /\ header'[n].currentStg = POLICY_DEPLOYED
                   /\ cexec'[k].replace = "false"]_vars

\* C39: every create or replace call the override workflow makes has a
\* duration of more than 0 minutes.
C39_PositiveDuration ==
    \A c \in pnet.calls : c.by = "override" => c.duration > 0

\* keyword arguments a call of update_tracker may carry: each one left out or
\* given a value no header holds
FrameFields ==
    [plcyId : {{}, {<<1, 9>>}}, rqstStrtDt : {{}, {30}}, rqstEndDt : {{}, {35}},
     extnddBy : {{}, {3}}, extnds : {{}, {3}}, original_start_datetime : {{}, {30}}]

\* an optional field after the update: the value given, the old one when
\* none is given
Kept(given, old, new) == new = (IF given = {} THEN old ELSE given)

\* C40: update_tracker, called on any header of the tracker with any choice of
\* optional fields, leaves the subscription id, the site, the meter serial
\* and the override value of the header as they are, keeps every optional
\* field that is not supplied, and leaves the headers of the other
\* correlation ids unchanged.
C40_Frame ==
    \A c \in CorrIds, stage \in {QUEUED, POLICY_DEPLOYED}, f \in FrameFields :
        LET T1 == update_tracker(Store, c, stage, f)
            old == header[c]
            new == T1.h[c]
        IN  /\ \A d \in CorrIds \ {c} : T1.h[d] = header[d]
            /\ new.subId = old.subId /\ new.site = old.site
            /\ new.mtrSrlNo = old.mtrSrlNo /\ new.overrdValue = old.overrdValue
            /\ new.group_id = old.group_id /\ new.GSI3SK = old.GSI3SK
            /\ old # NoItem =>
                  /\ Kept(f.plcyId, old.plcyId, new.plcyId)
                  /\ Kept(f.rqstStrtDt, old.rqstStrtDt, new.rqstStrtDt)
                  /\ Kept(f.rqstEndDt, old.rqstEndDt, new.rqstEndDt)
                  /\ Kept(f.extnddBy, old.extnddBy, new.extnddBy)
                  /\ Kept(f.extnds, old.extnds, new.extnds)
                  /\ Kept(f.original_start_datetime, old.original_start_datetime,
                          new.original_start_datetime)
                  /\ f.rqstEndDt = {} => new.GSI3PK = old.GSI3PK
            /\ old = NoItem => T1 = Store

C40_Witness ==
    \E c, n \in CorrIds :
        /\ header[c].currentStg = POLICY_DEPLOYED
        /\ header[c].plcyId # {} /\ header[c].extnds = {n}
        /\ header[c].rqstStrtDt = {body[c].start} /\ header[c].rqstEndDt = {body[c].end}
        /\ header[c].original_start_datetime # {}
        /\ header[n].extnddBy = {c} /\ header[n].plcyId # {}
        /\ header[n].rqstStrtDt = {body[n].start}
====
